---------------------------- MODULE Spec2Model ----------------------------
(***************************************************************************)
(* Model of pandora::DiffUtil (include/pandora/diff_util.h): the Myers     *)
(* search over a stack of ranges (CalculateDiff / DiffPartial), the status *)
(* pass of the DiffResult constructor (AddRootSnake, FindMatchingItems,    *)
(* FindMatchingItem), the position conversions and DispatchUpdatesTo with  *)
(* its postponed updates.  The two lists and the DiffCallback over them    *)
(* are the ones of tests/test_diff_util.cpp (TestItem, TestDiffCallback).  *)
(*                                                                         *)
(* C++ vectors are modelled as functions over 0 .. n-1 so that indices     *)
(* read as in the source; the two input lists are sequences and the oracle *)
(* adds one to the position it is given.                                   *)
(***************************************************************************)
EXTENDS Integers, Sequences, FiniteSets, TLC

\* Longest list enumerated (old and new).
MaxLen == 3
\* Number of distinct item identities enumerated.
NumIds == 3
\* Longest list and number of identities enumerated where only identities
\* matter (every item with the same content).
LongLen == 4
LongIds == 4
\* Item contents: TestItem::name.  Old items carry content 0, a new item
\* carries 0 (same content as any old item) or 1 (a modified content).
Contents == {0, 1}

VARIABLES
  old,                 \* old_list_ of the callback: Seq of [id, content]
  new,                 \* new_list_ of the callback
  detect_moves,        \* the detect_moves argument of CalculateDiff
  pc,                  \* "idle" | "start" | "loop" | "built" | "converted"
                       \* | "dispatched" | "fault"
  snakes_,             \* DiffResult::snakes_ (0-based)
  old_item_statuses_,  \* DiffResult::old_item_statuses_ (0-based)
  new_item_statuses_,  \* DiffResult::new_item_statuses_ (0-based)
  old_list_size_,      \* DiffResult::old_list_size_
  new_list_size_,      \* DiffResult::new_list_size_
  detect_moves_,       \* DiffResult::detect_moves_
  updates,             \* callbacks received by the ListUpdateCallback, in order
  fault,               \* "none" or the exception / crash that ended a call
  ret,                 \* return value of the last position conversion
  contents_calls,      \* pairs AreContentsTheSame was asked about by CalculateDiff
  locals,              \* the locals of CalculateDiff: range stack, snakes found,
                       \* forward, backward, and what it has asked and touched
  payload_calls        \* pairs GetChangePayload was asked about by the dispatch

\* A standalone RealDataSet<TestData> (include/pandora/real_data_set.h) with
\* the MockListUpdateCallback of tests/test_list_update_callback.cpp set.
VARIABLES
  data_,               \* RealDataSet::data_
  old_data_,           \* RealDataSet::old_data_, the snapshot
  use_transaction_,    \* RealDataSet::use_transaction_
  events,              \* MockListUpdateCallback::events
  last_call,           \* the last call made on the data set
  transaction          \* a Transaction<TestData> on the data set: the position
                       \* of its Apply and what the caller observes of it

diffvars == <<old, new, detect_moves, pc, snakes_, old_item_statuses_,
              new_item_statuses_, old_list_size_, new_list_size_, detect_moves_,
              updates, fault, ret, contents_calls, locals, payload_calls>>

dsvars ==
  <<data_, old_data_, use_transaction_, events, last_call, transaction>>

\* A WrapperDataSet<TestData> (include/pandora/wrapper_data_set.h) holding
\* RealDataSet children, with a MockListUpdateCallback set on the wrapper.
VARIABLES
  subs_,                     \* WrapperDataSet::subs_: the data_ of each child
  wrapper_old_data_,         \* WrapperDataSet::old_data_: T* into the children
  wrapper_old_data_hashes_,  \* WrapperDataSet::old_data_hashes_
  wrapper_use_transaction_,  \* WrapperDataSet::use_transaction_
  wrapper_call               \* the last call made on the wrapper or a child

wvars == <<subs_, wrapper_old_data_, wrapper_old_data_hashes_,
           wrapper_use_transaction_, wrapper_call>>

vars == <<diffvars, dsvars, wvars>>

----------------------------------------------------------------------------
(* Helpers for 0-based vectors *)

Vec(s) == [i \in 0 .. Len(s) - 1 |-> s[i + 1]]
VecLen(v) == Cardinality(DOMAIN v)
EmptyVec == [i \in {} |-> 0]
PushBack(v, e) == [i \in 0 .. VecLen(v) |-> IF i = VecLen(v) THEN e ELSE v[i]]
PopBack(v) == [i \in 0 .. VecLen(v) - 2 |-> v[i]]
InsertFront(v, e) == [i \in 0 .. VecLen(v) |-> IF i = 0 THEN e ELSE v[i - 1]]
EraseAt(v, p) == [i \in 0 .. VecLen(v) - 2 |-> IF i < p THEN v[i] ELSE v[i + 1]]
Filled(n, e) == [i \in 0 .. n - 1 |-> e]
Abs(a) == IF a < 0 THEN -a ELSE a

----------------------------------------------------------------------------
(* The DiffCallback of the tests *)

GetOldListSize == Len(old)
GetNewListSize == Len(new)
AreItemsTheSame(o, n) == old[o + 1].id = new[n + 1].id
AreContentsTheSame(o, n) == old[o + 1] = new[n + 1]

\* A call callback_->AreContentsTheSame(o, n) made while the statuses s are
\* computed: the callback sees the pair.
AskContents(s, o, n) == [s EXCEPT !.contents = @ \cup {<<o, n>>}]

\* A call callback_->GetChangePayload(o, n) made by the dispatch d; the
\* default implementation returns nullptr.
GetChangePayload(d, o, n) == [d EXCEPT !.payloads = @ \cup {<<o, n>>}]

----------------------------------------------------------------------------
(* DiffResult flag constants *)

NO_POSITION == -1
FLAG_NOT_CHANGED == 1
FLAG_CHANGED == 2
FLAG_MOVED_CHANGED == 4
FLAG_MOVED_NOT_CHANGED == 8
FLAG_IGNORE == 16
FLAG_OFFSET == 5
FLAG_MASK == 31

\* (pos << FLAG_OFFSET) | flag, for pos >= 0 and 0 <= flag <= FLAG_MASK
Pack(pos, flag) == pos * (2 ^ FLAG_OFFSET) + flag
\* status & FLAG_MASK, for status >= 0
FlagOf(status) == status % (FLAG_MASK + 1)
\* status >> FLAG_OFFSET, for status >= 0
PosOf(status) == status \div (2 ^ FLAG_OFFSET)


----------------------------------------------------------------------------
(* DiffUtil::DiffPartial.  c is the call's frame: the sub-range, k_offset    *)
(* and the locals old_size, new_size, delta, d_limit, check_in_fwd.          *)

Snake(x, y, size, removal, reverse) ==
  [x |-> x, y |-> y, size |-> size, removal |-> removal, reverse |-> reverse]

Range(ols, ole, nls, nle) ==
  [old_list_start |-> ols, old_list_end |-> ole,
   new_list_start |-> nls, new_list_end |-> nle]

\* std::fill(v.begin() + from, v.begin() + to, value)
Fill(v, from, to, value) ==
  [i \in DOMAIN v |-> IF from <= i /\ i < to THEN value ELSE v[i]]

\* while (x < old_size && y < new_size && AreItemsTheSame(start_old + x, start_new + y))
RECURSIVE SlideForward(_, _, _)
SlideForward(c, x, y) ==
  IF x < c.old_size /\ y < c.new_size
     /\ AreItemsTheSame(c.start_old + x, c.start_new + y)
  THEN SlideForward(c, x + 1, y + 1)
  ELSE x

\* while (x > 0 && y > 0 && AreItemsTheSame(start_old + x - 1, start_new + y - 1))
RECURSIVE SlideBackward(_, _, _)
SlideBackward(c, x, y) ==
  IF x > 0 /\ y > 0
     /\ AreItemsTheSame(c.start_old + x - 1, c.start_new + y - 1)
  THEN SlideBackward(c, x - 1, y - 1)
  ELSE x

\* A forward slide that asks before it looks at the bounds:
\* while (AreItemsTheSame(...) && x < old_size && y < new_size).
AskedForwardUnguarded(c, x, y) ==
  {<<c.start_old + x + i, c.start_new + y + i>> :
     i \in 0 .. SlideForward(c, x, y) - x}

\* The pairs the forward slide from (x, y) calls AreItemsTheSame with: one
\* per match and the one that ends the loop, unless a bound ends it.
AskedForward(c, x, y) ==
  LET n == SlideForward(c, x, y) - x
      last == IF x + n < c.old_size /\ y + n < c.new_size THEN n ELSE n - 1
  IN {<<c.start_old + x + i, c.start_new + y + i>> : i \in 0 .. last}

\* The pairs the backward slide from (x, y) calls AreItemsTheSame with.
AskedBackward(c, x, y) ==
  LET n == x - SlideBackward(c, x, y)
      last == IF x - n > 0 /\ y - n > 0 THEN n ELSE n - 1
  IN {<<c.start_old + x - 1 - i, c.start_new + y - 1 - i>> : i \in 0 .. last}

\* What a DiffPartial has done so far besides computing: items are the pairs
\* it called AreItemsTheSame with, cells the indices of forward and backward
\* it filled, read or wrote.
NoAccess == [items |-> {}, cells |-> {}]

Access(g, items, cells) ==
  [items |-> g.items \cup items, cells |-> g.cells \cup cells]

\* The indices of forward read to choose x on diagonal k at depth d.
ForwardReads(c, d, k) ==
  IF k = -d THEN {c.k_offset + k + 1}
  ELSE IF k = d THEN {c.k_offset + k - 1}
  ELSE {c.k_offset + k - 1, c.k_offset + k + 1}

\* The indices of backward read to choose x on diagonal backward_k.
BackwardReads(c, d, k) ==
  IF k = d THEN {c.k_offset + k + c.delta - 1}
  ELSE IF k = -d THEN {c.k_offset + k + c.delta + 1}
  ELSE {c.k_offset + k + c.delta - 1, c.k_offset + k + c.delta + 1}

\* The overlap test of the forward pass: the snake runs from the backward
\* front to the forward front on diagonal k.
ForwardOverlap(c, d, k, forward, backward) ==
  /\ c.check_in_fwd
  /\ k >= c.delta - d + 1
  /\ k <= c.delta + d - 1
  /\ forward[c.k_offset + k] >= backward[c.k_offset + k]

\* for (int k = -d; k <= d; k += 2), forward pass, from diagonal k on
RECURSIVE ForwardPass(_, _, _, _, _, _)
ForwardPass(c, d, k, forward, backward, g) ==
  IF k > d THEN [found |-> FALSE, forward |-> forward, g |-> g]
  ELSE
    LET down == k = -d \/ (k # d /\ forward[c.k_offset + k - 1]
                                      < forward[c.k_offset + k + 1])
        x0 == IF down THEN forward[c.k_offset + k + 1]
                      ELSE forward[c.k_offset + k - 1] + 1
        removal == ~down
        x == SlideForward(c, x0, x0 - k)
        fwd == [forward EXCEPT ![c.k_offset + k] = x]
        g1 == Access(g, AskedForward(c, x0, x0 - k),
                     ForwardReads(c, d, k) \cup {c.k_offset + k})
    IN IF ForwardOverlap(c, d, k, fwd, backward)
       THEN [found |-> TRUE, forward |-> fwd, g |-> g1,
             snake |-> Snake(backward[c.k_offset + k],
                             backward[c.k_offset + k] - k,
                             fwd[c.k_offset + k] - backward[c.k_offset + k],
                             removal, FALSE)]
       ELSE ForwardPass(c, d, k + 2, fwd, backward, g1)

\* The overlap test of the backward pass.
BackwardOverlap(c, d, k, forward, backward) ==
  /\ ~c.check_in_fwd
  /\ k + c.delta >= -d
  /\ k + c.delta <= d
  /\ forward[c.k_offset + k + c.delta] >= backward[c.k_offset + k + c.delta]

\* for (int k = -d; k <= d; k += 2), backward pass, from diagonal k on
RECURSIVE BackwardPass(_, _, _, _, _, _)
BackwardPass(c, d, k, forward, backward, g) ==
  IF k > d THEN [found |-> FALSE, backward |-> backward, g |-> g]
  ELSE
    LET backward_k == k + c.delta
        up == backward_k = d + c.delta
              \/ (backward_k # -d + c.delta
                  /\ backward[c.k_offset + backward_k - 1]
                     < backward[c.k_offset + backward_k + 1])
        x0 == IF up THEN backward[c.k_offset + backward_k - 1]
                    ELSE backward[c.k_offset + backward_k + 1] - 1
        removal == ~up
        x == SlideBackward(c, x0, x0 - backward_k)
        bwd == [backward EXCEPT ![c.k_offset + backward_k] = x]
        g1 == Access(g, AskedBackward(c, x0, x0 - backward_k),
                     BackwardReads(c, d, k) \cup {c.k_offset + backward_k})
    IN IF BackwardOverlap(c, d, k, forward, bwd)
       THEN [found |-> TRUE, backward |-> bwd, g |-> g1,
             snake |-> Snake(bwd[c.k_offset + backward_k],
                             bwd[c.k_offset + backward_k] - backward_k,
                             forward[c.k_offset + backward_k]
                               - bwd[c.k_offset + backward_k],
                             removal, TRUE)]
       ELSE BackwardPass(c, d, k + 2, forward, bwd, g1)

\* for (int d = 0; d <= d_limit; d++), from depth d on; falls out of the
\* loop into the throw.
RECURSIVE Search(_, _, _, _, _)
Search(c, d, forward, backward, g) ==
  IF d > c.d_limit
  THEN [kind |-> "throw", forward |-> forward, backward |-> backward,
        g |-> g]
  ELSE
    LET f == ForwardPass(c, d, -d, forward, backward, g) IN
    IF f.found
    THEN [kind |-> "snake", snake |-> f.snake, depth |-> d,
          forward |-> f.forward, backward |-> backward, g |-> f.g]
    ELSE
      LET b == BackwardPass(c, d, -d, f.forward, backward, f.g) IN
      IF b.found
      THEN [kind |-> "snake", snake |-> b.snake, depth |-> d,
            forward |-> f.forward, backward |-> b.backward, g |-> b.g]
      ELSE Search(c, d + 1, f.forward, b.backward, b.g)

\* The frame with the depth limit old_size + new_size + 1, not halved.
FrameDeep(start_old, end_old, start_new, end_new, k_offset) ==
  LET old_size == end_old - start_old
      new_size == end_new - start_new
  IN [start_old |-> start_old, start_new |-> start_new,
      old_size |-> old_size, new_size |-> new_size,
      k_offset |-> k_offset,
      delta |-> old_size - new_size,
      d_limit |-> old_size + new_size + 1,
      check_in_fwd |-> (old_size - new_size) % 2 # 0]

\* The frame with the depth limit one short of (old_size + new_size + 1) / 2.
FrameShallow(start_old, end_old, start_new, end_new, k_offset) ==
  LET old_size == end_old - start_old
      new_size == end_new - start_new
  IN [start_old |-> start_old, start_new |-> start_new,
      old_size |-> old_size, new_size |-> new_size,
      k_offset |-> k_offset,
      delta |-> old_size - new_size,
      d_limit |-> (old_size + new_size + 1) \div 2 - 1,
      check_in_fwd |-> (old_size - new_size) % 2 # 0]

\* The locals of DiffPartial computed at its entry.
Frame(start_old, end_old, start_new, end_new, k_offset) ==
  LET old_size == end_old - start_old
      new_size == end_new - start_new
  IN [start_old |-> start_old, start_new |-> start_new,
      old_size |-> old_size, new_size |-> new_size,
      k_offset |-> k_offset,
      delta |-> old_size - new_size,
      d_limit |-> (old_size + new_size + 1) \div 2,
      check_in_fwd |-> (old_size - new_size) % 2 # 0]

DiffPartial(start_old, end_old, start_new, end_new, forward, backward, k_offset) ==
  IF end_old - start_old < 1 \/ end_new - start_new < 1
  THEN [kind |-> "null", forward |-> forward, backward |-> backward,
        g |-> NoAccess]
  ELSE
    LET c == Frame(start_old, end_old, start_new, end_new, k_offset) IN
    Search(c, 0,
           Fill(forward, k_offset - c.d_limit - 1, k_offset + c.d_limit + 1, 0),
           Fill(backward, k_offset - c.d_limit - 1 + c.delta,
                k_offset + c.d_limit + 1 + c.delta, c.old_size),
           Access(NoAccess, {},
                  (k_offset - c.d_limit - 1 .. k_offset + c.d_limit)
                    \cup (k_offset - c.d_limit - 1 + c.delta
                            .. k_offset + c.d_limit + c.delta)))

----------------------------------------------------------------------------
(* DiffUtil::CalculateDiff: the range stack loop and the sort *)

\* snakes.push_back(*snake): the vector receives a copy of the snake as
\* DiffPartial returned it; the offset that follows is applied to *snake,
\* the heap object, which is deleted at the end of the iteration.
StoredSnake(snake, range) == snake

\* snake->x += range.old_list_start; snake->y += range.new_list_start;
OffsetSnake(snake, range) ==
  [snake EXCEPT !.x = @ + range.old_list_start,
                !.y = @ + range.new_list_start]

\* The left range, from the offset snake.
LeftRange(range, snake) ==
  IF snake.reverse
  THEN Range(range.old_list_start, snake.x, range.new_list_start, snake.y)
  ELSE IF snake.removal
       THEN Range(range.old_list_start, snake.x - 1,
                  range.new_list_start, snake.y)
       ELSE Range(range.old_list_start, snake.x,
                  range.new_list_start, snake.y - 1)

\* A right range that starts where the popped range started.
RightRangeWhole(range, snake) == range

\* The right range (the popped range re-used), from the offset snake.
RightRange(range, snake) ==
  IF snake.reverse
  THEN IF snake.removal
       THEN Range(snake.x + snake.size + 1, range.old_list_end,
                  snake.y + snake.size, range.new_list_end)
       ELSE Range(snake.x + snake.size, range.old_list_end,
                  snake.y + snake.size + 1, range.new_list_end)
  ELSE Range(snake.x + snake.size, range.old_list_end,
             snake.y + snake.size, range.new_list_end)

\* One iteration of while (!stack.empty()).  st holds the locals of
\* CalculateDiff: stack, snakes, forward, backward, and in items and cells
\* what its calls of DiffPartial asked and touched; max is k_offset.
RangeStep(st, max) ==
  LET range == st.stack[VecLen(st.stack) - 1]
      popped == PopBack(st.stack)
      r == DiffPartial(range.old_list_start, range.old_list_end,
                       range.new_list_start, range.new_list_end,
                       st.forward, st.backward, max)
      items == st.items \cup r.g.items
      cells == st.cells \cup r.g.cells
  IN CASE r.kind = "throw" ->
            [st EXCEPT !.stack = popped, !.thrown = TRUE,
                       !.forward = r.forward, !.backward = r.backward,
                       !.items = items, !.cells = cells]
       [] r.kind = "null" ->
            [st EXCEPT !.stack = popped]
       [] r.kind = "snake" ->
            LET snake == OffsetSnake(r.snake, range) IN
            [st EXCEPT
               !.snakes = IF r.snake.size > 0
                          THEN PushBack(@, StoredSnake(r.snake, range))
                          ELSE @,
               !.stack = PushBack(PushBack(popped, LeftRange(range, snake)),
                                  RightRange(range, snake)),
               !.forward = r.forward, !.backward = r.backward,
               !.items = items, !.cells = cells]

RECURSIVE RunStack(_, _)
RunStack(st, max) ==
  IF st.thrown \/ VecLen(st.stack) = 0 THEN st
  ELSE RunStack(RangeStep(st, max), max)

\* The locals of CalculateDiff before the loop.
CalcLocals(old_size, new_size) ==
  LET max == old_size + new_size + Abs(old_size - new_size) IN
  [stack |-> PushBack(EmptyVec, Range(0, old_size, 0, new_size)),
   snakes |-> EmptyVec,
   forward |-> Filled(max * 2, 0),
   backward |-> Filled(max * 2, 0),
   thrown |-> FALSE,
   items |-> {},
   cells |-> {}]

\* No CalculateDiff has run.
NoLocals ==
  [stack |-> EmptyVec, snakes |-> EmptyVec, forward |-> EmptyVec,
   backward |-> EmptyVec, thrown |-> FALSE, items |-> {}, cells |-> {}]

\* The comparator with its operands exchanged: a descending sort.
SnakeLessDescending(o1, o2) ==
  IF o2.x - o1.x = 0 THEN o2.y < o1.y ELSE o2.x - o1.x < 0

\* The comparator of the sort: by x, then by y.
SnakeLess(o1, o2) ==
  IF o1.x - o2.x = 0 THEN o1.y < o2.y ELSE o1.x - o2.x < 0

\* std::sort is not stable: snakes the comparator holds equivalent may come
\* out in any order.  All orders of v that the comparator accepts as sorted.
RECURSIVE SortedFrom(_, _)
SortedFrom(v, rest) ==
  IF rest = {} THEN {EmptyVec}
  ELSE
    LET least == {i \in rest : \A j \in rest : ~SnakeLess(v[j], v[i])} IN
    UNION {{InsertFront(t, v[i]) : t \in SortedFrom(v, rest \ {i})} : i \in least}

SortedOrders(v) == SortedFrom(v, DOMAIN v)

----------------------------------------------------------------------------
(* The DiffResult constructor *)

\* AddRootSnake that never inserts the root snake.
AddRootSnakeNever(snakes) == snakes

\* AddRootSnake that inserts the root snake only into an empty list.
AddRootSnakeIfEmpty(snakes) ==
  IF VecLen(snakes) = 0
  THEN InsertFront(snakes, Snake(0, 0, 0, FALSE, FALSE))
  ELSE snakes

\* DiffResult::AddRootSnake
AddRootSnake(snakes) ==
  IF VecLen(snakes) = 0 \/ snakes[0].x # 0 \/ snakes[0].y # 0
  THEN InsertFront(snakes, Snake(0, 0, 0, FALSE, FALSE))
  ELSE snakes

\* ChangeFlag with the two flags exchanged.
ChangeFlagExchanged(the_same) ==
  IF the_same THEN FLAG_CHANGED ELSE FLAG_NOT_CHANGED

\* The status written for a matched pair inside a snake.
ChangeFlag(the_same) == IF the_same THEN FLAG_NOT_CHANGED ELSE FLAG_CHANGED

\* The status written for the moved half of a detected move.
MovedFlag(the_same) ==
  IF the_same THEN FLAG_MOVED_NOT_CHANGED ELSE FLAG_MOVED_CHANGED

\* for (int pos = cur_x - 1; pos >= end_x; pos--): the first old pos that is
\* the same item as new my_item_pos; -1 if the loop ends without a hit.
RECURSIVE ScanOld(_, _, _)
ScanOld(pos, end_x, my_item_pos) ==
  IF pos < end_x THEN -1
  ELSE IF AreItemsTheSame(pos, my_item_pos) THEN pos
       ELSE ScanOld(pos - 1, end_x, my_item_pos)

\* for (int pos = cur_y - 1; pos >= end_y; pos--): the first new pos that is
\* the same item as old my_item_pos; -1 if the loop ends without a hit.
RECURSIVE ScanNew(_, _, _)
ScanNew(pos, end_y, my_item_pos) ==
  IF pos < end_y THEN -1
  ELSE IF AreItemsTheSame(my_item_pos, pos) THEN pos
       ELSE ScanNew(pos - 1, end_y, my_item_pos)

\* The calls callback_->AreItemsTheSame made by a scan from position from
\* down to position to; the callback sees the pairs.
AskItems(s, pairs) == [s EXCEPT !.items = @ \cup pairs]

\* DiffResult::FindMatchingItem, from snake i down; s = [o, n, contents,
\* items] are the two status vectors and the pairs AreContentsTheSame and
\* AreItemsTheSame were called with.
RECURSIVE FindMatchingItemFrom(_, _, _, _, _, _, _, _)
FindMatchingItemFrom(s, snakes, x, y, i, cur_x, cur_y, removal) ==
  IF i < 0 THEN s
  ELSE
    LET snake == snakes[i]
        end_x == snake.x + snake.size
        end_y == snake.y + snake.size
        my_item_pos == IF removal THEN y - 1 ELSE x - 1
        pos == IF removal THEN ScanOld(cur_x - 1, end_x, my_item_pos)
                          ELSE ScanNew(cur_y - 1, end_y, my_item_pos)
        scanned ==
          IF removal
          THEN {<<p, my_item_pos>> :
                  p \in (IF pos # -1 THEN pos ELSE end_x) .. cur_x - 1}
          ELSE {<<my_item_pos, p>> :
                  p \in (IF pos # -1 THEN pos ELSE end_y) .. cur_y - 1}
        asked == AskItems(s, scanned)
    IN IF pos # -1
       THEN IF removal
            THEN [AskContents(asked, pos, my_item_pos) EXCEPT
                    !.o[pos] =
                       Pack(my_item_pos,
                            MovedFlag(AreContentsTheSame(pos, my_item_pos))),
                    !.n[my_item_pos] = Pack(pos, FLAG_IGNORE)]
            ELSE [AskContents(asked, my_item_pos, pos) EXCEPT
                    !.o[x - 1] = Pack(pos, FLAG_IGNORE),
                    !.n[pos] =
                       Pack(x - 1,
                            MovedFlag(AreContentsTheSame(my_item_pos, pos)))]
       ELSE FindMatchingItemFrom(asked, snakes, x, y, i - 1,
                                 snake.x, snake.y, removal)

FindMatchingItem(s, snakes, x, y, snake_index, removal) ==
  FindMatchingItemFrom(s, snakes, x, y, snake_index,
                       IF removal THEN x ELSE x - 1,
                       IF removal THEN y - 1 ELSE y,
                       removal)

\* DiffResult::FindAddition
FindAddition(s, snakes, x, y, snake_index) ==
  IF s.o[x - 1] # 0 THEN s
  ELSE FindMatchingItem(s, snakes, x, y, snake_index, FALSE)

\* DiffResult::FindRemoval
FindRemoval(s, snakes, x, y, snake_index) ==
  IF s.n[y - 1] # 0 THEN s
  ELSE FindMatchingItem(s, snakes, x, y, snake_index, TRUE)

\* while (pos_old > end_x) { FindAddition(pos_old, pos_new, i); pos_old--; }
RECURSIVE AdditionsLoop(_, _, _, _, _, _)
AdditionsLoop(s, snakes, pos_old, pos_new, end_x, i) ==
  IF pos_old > end_x
  THEN AdditionsLoop(FindAddition(s, snakes, pos_old, pos_new, i),
                     snakes, pos_old - 1, pos_new, end_x, i)
  ELSE [s |-> s, pos_old |-> pos_old]

\* while (pos_new > end_y) { FindRemoval(pos_old, pos_new, i); pos_new--; }
RECURSIVE RemovalsLoop(_, _, _, _, _, _)
RemovalsLoop(s, snakes, pos_old, pos_new, end_y, i) ==
  IF pos_new > end_y
  THEN RemovalsLoop(FindRemoval(s, snakes, pos_old, pos_new, i),
                    snakes, pos_old, pos_new - 1, end_y, i)
  ELSE s

\* for (int j = 0; j < snake.size; j++): the statuses of the snake's pairs
RECURSIVE SnakeStatuses(_, _, _)
SnakeStatuses(s, snake, j) ==
  IF j >= snake.size THEN s
  ELSE
    LET old_item_pos == snake.x + j
        new_item_pos == snake.y + j
        change_flag == ChangeFlag(AreContentsTheSame(old_item_pos, new_item_pos))
    IN SnakeStatuses(
         [AskContents(s, old_item_pos, new_item_pos) EXCEPT
            !.o[old_item_pos] = Pack(new_item_pos, change_flag),
            !.n[new_item_pos] = Pack(old_item_pos, change_flag)],
         snake, j + 1)

\* DiffResult::FindMatchingItems, from snake i down
RECURSIVE FindMatchingItemsFrom(_, _, _, _, _, _)
FindMatchingItemsFrom(s, snakes, dm, i, pos_old, pos_new) ==
  IF i < 0 THEN s
  ELSE
    LET snake == snakes[i]
        end_x == snake.x + snake.size
        end_y == snake.y + snake.size
        a == IF dm THEN AdditionsLoop(s, snakes, pos_old, pos_new, end_x, i)
                   ELSE [s |-> s, pos_old |-> pos_old]
        r == IF dm THEN RemovalsLoop(a.s, snakes, a.pos_old, pos_new, end_y, i)
                   ELSE s
    IN FindMatchingItemsFrom(SnakeStatuses(r, snake, 0), snakes, dm,
                             i - 1, snake.x, snake.y)

FindMatchingItems(snakes, dm, old_list_size, new_list_size) ==
  FindMatchingItemsFrom([o |-> Filled(old_list_size, 0),
                         n |-> Filled(new_list_size, 0),
                         contents |-> {}, items |-> {}],
                        snakes, dm, VecLen(snakes) - 1,
                        old_list_size, new_list_size)

\* The constructor ignoring its argument: move detection always on.
StoredDetectMovesAlways(dm) == TRUE

\* detect_moves_(detect_moves) in the constructor's initialiser list
StoredDetectMoves(dm) == dm

----------------------------------------------------------------------------
(* Position conversions *)

\* What a conversion gives back: a position, or the std::out_of_range it
\* throws.
Returns(value) == [throws |-> FALSE, value |-> value]
ThrowsOutOfRange == [throws |-> TRUE, value |-> 0]

\* DiffResult::ConvertOldPositionToNew
ConvertOldPositionToNew(old_list_position) ==
  IF old_list_position < 0 \/ old_list_position >= old_list_size_
  THEN ThrowsOutOfRange
  ELSE IF FlagOf(old_item_statuses_[old_list_position]) = 0
       THEN Returns(NO_POSITION)
       ELSE Returns(PosOf(old_item_statuses_[old_list_position]))

\* ConvertNewPositionToOld with the lower bound checked as <= 0.
ConvertNewPositionToOldStrict(new_list_position) ==
  IF new_list_position <= 0 \/ new_list_position >= new_list_size_
  THEN ThrowsOutOfRange
  ELSE IF FlagOf(new_item_statuses_[new_list_position]) = 0
       THEN Returns(NO_POSITION)
       ELSE Returns(PosOf(new_item_statuses_[new_list_position]))

\* DiffResult::ConvertNewPositionToOld
ConvertNewPositionToOld(new_list_position) ==
  IF new_list_position < 0 \/ new_list_position >= new_list_size_
  THEN ThrowsOutOfRange
  ELSE IF FlagOf(new_item_statuses_[new_list_position]) = 0
       THEN Returns(NO_POSITION)
       ELSE Returns(PosOf(new_item_statuses_[new_list_position]))

----------------------------------------------------------------------------
(* DiffResult::DispatchUpdatesTo.  d = [postponed, updates, fault, payloads] *)
(* is the state of one dispatch: postponed_updates, the callbacks delivered  *)
(* so far, the exception or crash that ended it ("none" while it runs) and   *)
(* the pairs GetChangePayload was called with.                               *)

\* The calls on the ListUpdateCallback, as TestListUpdateCallback records them.
OnInserted(position, count) ==
  [type |-> "INSERT", position |-> position, count |-> count, to_position |-> -1]
OnRemoved(position, count) ==
  [type |-> "REMOVE", position |-> position, count |-> count, to_position |-> -1]
OnMoved(from_position, to_position) ==
  [type |-> "MOVE", position |-> from_position, count |-> 1,
   to_position |-> to_position]
OnChanged(position, count) ==
  [type |-> "CHANGE", position |-> position, count |-> count, to_position |-> -1]

PostponedUpdate(pos, cur, rem) ==
  [pos_in_owner_list |-> pos, current_pos |-> cur, removal |-> rem]

Emit(d, u) == [d EXCEPT !.updates = Append(@, u)]

\* for (auto& update : postponed_updates) update.current_pos += by;
ShiftAll(postponed, by) ==
  [i \in DOMAIN postponed |-> [postponed[i] EXCEPT !.current_pos = @ + by]]

\* The index RemovePostponedUpdate stops at, scanning from i down; -1: nullptr.
RECURSIVE PostponedIndex(_, _, _, _)
PostponedIndex(postponed, i, pos, removal) ==
  IF i < 0 THEN -1
  ELSE IF postponed[i].pos_in_owner_list = pos /\ postponed[i].removal = removal
       THEN i
       ELSE PostponedIndex(postponed, i - 1, pos, removal)

\* A RemovePostponedUpdate that looks for an entry of the caller's own
\* direction.
RemovePostponedUpdateOwnDirection(postponed, pos, removal) ==
  LET i == PostponedIndex(postponed, VecLen(postponed) - 1, pos, ~removal) IN
  IF i = -1 THEN [found |-> FALSE, postponed |-> postponed]
  ELSE [found |-> TRUE, update |-> postponed[i],
        postponed |-> EraseAt(postponed, i)]

\* DiffResult::RemovePostponedUpdate: the copy returned and the vector left,
\* the entries after the erased one shifted by one.
RemovePostponedUpdate(postponed, pos, removal) ==
  LET i == PostponedIndex(postponed, VecLen(postponed) - 1, pos, removal) IN
  IF i = -1 THEN [found |-> FALSE, postponed |-> postponed]
  ELSE LET erased == EraseAt(postponed, i) IN
       [found |-> TRUE, update |-> postponed[i],
        postponed |-> [j \in DOMAIN erased |->
                         IF j >= i
                         THEN [erased[j] EXCEPT
                                 !.current_pos = @ + (IF removal THEN 1 ELSE -1)]
                         ELSE erased[j]]]

\* One iteration of the loop of DispatchAdditions (detect_moves_ true).
AdditionStep(d, start, global_index, i) ==
  LET status == FlagOf(new_item_statuses_[global_index + i]) IN
  CASE status = 0 ->
         [Emit(d, OnInserted(start, 1)) EXCEPT !.postponed = ShiftAll(@, 1)]
    [] status \in {FLAG_MOVED_CHANGED, FLAG_MOVED_NOT_CHANGED} ->
         LET pos == PosOf(new_item_statuses_[global_index + i])
             r == RemovePostponedUpdate(d.postponed, pos, TRUE)
         IN IF ~r.found
            THEN [d EXCEPT !.fault = "null_deref"]
            ELSE LET moved == [Emit(d, OnMoved(r.update.current_pos, start))
                                 EXCEPT !.postponed = r.postponed]
                 IN IF status = FLAG_MOVED_CHANGED
                    THEN Emit(GetChangePayload(moved, pos, global_index + i),
                              OnChanged(start, 1))
                    ELSE moved
    [] status = FLAG_IGNORE ->
         [d EXCEPT !.postponed =
            PushBack(@, PostponedUpdate(global_index + i, start, FALSE))]
    [] OTHER -> [d EXCEPT !.fault = "unknown_flag"]

RECURSIVE AdditionsFrom(_, _, _, _)
AdditionsFrom(d, start, global_index, i) ==
  IF i < 0 \/ d.fault # "none" THEN d
  ELSE AdditionsFrom(AdditionStep(d, start, global_index, i),
                     start, global_index, i - 1)

\* DispatchAdditions without its per-item loop: one range callback whatever
\* detect_moves_ is.
DispatchAdditionsCoalesced(d, start, count, global_index) ==
  Emit(d, OnInserted(start, count))

\* DispatchAdditions reporting at the position in the new list instead of
\* the position in the list as dispatched so far.
DispatchAdditionsAtNewIndex(d, start, count, global_index) ==
  IF ~detect_moves_
  THEN Emit(d, OnInserted(global_index, count))
  ELSE AdditionsFrom(d, global_index, global_index, count - 1)

\* DiffResult::DispatchAdditions
DispatchAdditions(d, start, count, global_index) ==
  IF ~detect_moves_
  THEN Emit(d, OnInserted(start, count))
  ELSE AdditionsFrom(d, start, global_index, count - 1)

\* One iteration of the loop of DispatchRemovals (detect_moves_ true).
RemovalStep(d, start, global_index, i) ==
  LET status == FlagOf(old_item_statuses_[global_index + i]) IN
  CASE status = 0 ->
         [Emit(d, OnRemoved(start + i, 1)) EXCEPT !.postponed = ShiftAll(@, -1)]
    [] status \in {FLAG_MOVED_CHANGED, FLAG_MOVED_NOT_CHANGED} ->
         LET pos == PosOf(old_item_statuses_[global_index + i])
             r == RemovePostponedUpdate(d.postponed, pos, FALSE)
         IN IF ~r.found
            THEN [d EXCEPT !.fault = "null_deref"]
            ELSE LET moved == [Emit(d, OnMoved(start + i, r.update.current_pos - 1))
                                 EXCEPT !.postponed = r.postponed]
                 IN IF status = FLAG_MOVED_CHANGED
                    THEN Emit(GetChangePayload(moved, global_index + i, pos),
                              OnChanged(r.update.current_pos - 1, 1))
                    ELSE moved
    [] status = FLAG_IGNORE ->
         [d EXCEPT !.postponed =
            PushBack(@, PostponedUpdate(global_index + i, start + i, TRUE))]
    [] OTHER -> [d EXCEPT !.fault = "unknown_flag"]

RECURSIVE RemovalsFrom(_, _, _, _)
RemovalsFrom(d, start, global_index, i) ==
  IF i < 0 \/ d.fault # "none" THEN d
  ELSE RemovalsFrom(RemovalStep(d, start, global_index, i),
                    start, global_index, i - 1)

\* DispatchRemovals running its per-item loop whatever detect_moves_ is.
DispatchRemovalsPerItem(d, start, count, global_index) ==
  RemovalsFrom(d, start, global_index, count - 1)

\* DiffResult::DispatchRemovals
DispatchRemovals(d, start, count, global_index) ==
  IF ~detect_moves_
  THEN Emit(d, OnRemoved(start, count))
  ELSE RemovalsFrom(d, start, global_index, count - 1)

\* The changes inside a snake reported as one range callback.
SnakeChangesWhole(d, snake, i) ==
  IF \E j \in 0 .. i : FlagOf(old_item_statuses_[snake.x + j]) = FLAG_CHANGED
  THEN Emit(d, OnChanged(snake.x, i + 1))
  ELSE d

\* for (int i = snake_size - 1; i >= 0; i--): changes inside the snake
RECURSIVE SnakeChanges(_, _, _)
SnakeChanges(d, snake, i) ==
  IF i < 0 THEN d
  ELSE SnakeChanges(
         IF FlagOf(old_item_statuses_[snake.x + i]) = FLAG_CHANGED
         THEN Emit(GetChangePayload(d, snake.x + i, snake.y + i),
                   OnChanged(snake.x + i, 1))
         ELSE d,
         snake, i - 1)

\* The body of the loop of DispatchUpdatesTo for one snake; an exception
\* thrown by a callee leaves the loop.
DispatchSnake(d, snake, pos_old, pos_new) ==
  LET end_x == snake.x + snake.size
      end_y == snake.y + snake.size
      r == IF end_x < pos_old
           THEN DispatchRemovals(d, end_x, pos_old - end_x, end_x)
           ELSE d
      a == IF r.fault # "none" THEN r
           ELSE IF end_y < pos_new
                THEN DispatchAdditions(r, end_x, pos_new - end_y, end_y)
                ELSE r
  IN IF a.fault # "none" THEN a ELSE SnakeChanges(a, snake, snake.size - 1)

RECURSIVE DispatchFrom(_, _, _, _)
DispatchFrom(d, snake_index, pos_old, pos_new) ==
  IF snake_index < 0 \/ d.fault # "none" THEN d
  ELSE LET snake == snakes_[snake_index] IN
       DispatchFrom(DispatchSnake(d, snake, pos_old, pos_new),
                    snake_index - 1, snake.x, snake.y)

\* DispatchUpdatesTo starting one item short of the end of the new list.
DispatchUpdatesToShort ==
  DispatchFrom([postponed |-> EmptyVec, updates |-> <<>>, fault |-> "none",
                payloads |-> {}],
               VecLen(snakes_) - 1, old_list_size_, new_list_size_ - 1)

\* DiffResult::DispatchUpdatesTo
DispatchUpdatesTo ==
  DispatchFrom([postponed |-> EmptyVec, updates |-> <<>>, fault |-> "none",
                payloads |-> {}],
               VecLen(snakes_) - 1, old_list_size_, new_list_size_)

----------------------------------------------------------------------------
(* RealDataSet: the mutations of a standalone data set (parent_ is nullptr)  *)
(* and its transaction flag.  last_call keeps the operation, the position    *)
(* it acted on (-1: none), whether the set was in a transaction when it was  *)
(* called and how many events the callback had received before it.           *)

\* RealDataSet::parent_ of a data set that was added to no WrapperDataSet.
parent_ == "nullptr"

\* RealDataSet::IsParentInTransaction; there is no parent to ask.
IsParentInTransaction == parent_ # "nullptr"

\* RealDataSet::InTransaction
InTransaction == use_transaction_ \/ IsParentInTransaction

\* RealDataSet::Snapshot: the value old_data_ takes.
Snapshot == data_

\* An OnBeforeChanged that takes the snapshot inside a transaction too.
OnBeforeChangedAlways == Snapshot

\* RealDataSet::OnBeforeChanged: the value old_data_ has after it.
OnBeforeChanged == IF ~InTransaction THEN Snapshot ELSE old_data_

\* RealDataSet::OnAfterChanged: the events the callback has after it.  The
\* body notifies no parent (there is none) and its branch for a data set
\* outside a transaction is empty.
OnAfterChanged == events

Call(op, pos) ==
  [op |-> op, pos |-> pos, in_transaction |-> InTransaction,
   events_before |-> Len(events)]

NoCall == [op |-> "none", pos |-> -1, in_transaction |-> FALSE, events_before |-> 0]

\* A Transaction constructed on the data set, Apply not yet called.  entry
\* is data_ when Apply was called, mutations counts the mutations func has
\* made, changed tells whether func had changed data_ when it threw, and
\* escaped whether an exception left Apply.
NoApply ==
  [pc |-> "none", entry |-> <<>>, mutations |-> 0, threw |-> FALSE,
   changed |-> FALSE, escaped |-> FALSE]

\* A RealDataSet as constructed, with a fresh callback set.
NewDataSet ==
  /\ data_ = <<>>
  /\ old_data_ = <<>>
  /\ use_transaction_ = FALSE
  /\ events = <<>>
  /\ last_call = NoCall
  /\ transaction = NoApply

\* RealDataSet::Add(const T& item)
Add(item) ==
  /\ Len(data_) < MaxLen
  /\ old_data_' = OnBeforeChanged
  /\ data_' = Append(data_, item)
  /\ events' = OnAfterChanged
  /\ last_call' = Call("Add", Len(data_))
  /\ UNCHANGED use_transaction_

\* RealDataSet::Add(int pos, const T& item)
AddAt(pos, item) ==
  /\ Len(data_) < MaxLen
  /\ IF pos < 0 \/ pos > Len(data_)
     THEN /\ last_call' = Call("AddAt", -1)
          /\ UNCHANGED <<data_, old_data_, events>>
     ELSE /\ old_data_' = OnBeforeChanged
          /\ data_' = SubSeq(data_, 1, pos) \o <<item>>
                         \o SubSeq(data_, pos + 1, Len(data_))
          /\ events' = OnAfterChanged
          /\ last_call' = Call("AddAt", pos)
  /\ UNCHANGED use_transaction_

\* RealDataSet::RemoveAtPos
RemoveAtPos(position) ==
  /\ IF position < 0 \/ position >= Len(data_)
     THEN /\ last_call' = Call("RemoveAtPos", -1)
          /\ UNCHANGED <<data_, old_data_, events>>
     ELSE /\ old_data_' = OnBeforeChanged
          /\ data_' = SubSeq(data_, 1, position)
                         \o SubSeq(data_, position + 2, Len(data_))
          /\ events' = OnAfterChanged
          /\ last_call' = Call("RemoveAtPos", position)
  /\ UNCHANGED use_transaction_

\* RealDataSet::StartTransaction
StartTransaction ==
  /\ use_transaction_' = TRUE
  /\ old_data_' = Snapshot
  /\ last_call' = Call("StartTransaction", -1)
  /\ UNCHANGED <<data_, events>>

\* RealDataSet::EndTransaction
EndTransaction ==
  /\ use_transaction_' = FALSE
  /\ last_call' = Call("EndTransaction", -1)
  /\ UNCHANGED <<data_, old_data_, events>>

\* RealDataSet::ClearAllData
ClearAllData ==
  /\ old_data_' = OnBeforeChanged
  /\ data_' = <<>>
  /\ events' = OnAfterChanged
  /\ last_call' = Call("ClearAllData", -1)
  /\ UNCHANGED use_transaction_

\* RealDataSet::ReplaceAtPosIfExist
ReplaceAtPosIfExist(position, item) ==
  /\ IF position < 0 \/ position >= Len(data_)
     THEN /\ last_call' = Call("ReplaceAtPosIfExist", -1)
          /\ UNCHANGED <<data_, old_data_, events>>
     ELSE /\ old_data_' = OnBeforeChanged
          /\ data_' = [data_ EXCEPT ![position + 1] = item]
          /\ events' = OnAfterChanged
          /\ last_call' = Call("ReplaceAtPosIfExist", position)
  /\ UNCHANGED use_transaction_

\* RealDataSet::Restore: the value data_ takes.
Restore == old_data_

----------------------------------------------------------------------------
(* WrapperDataSet: a wrapper without a parent over NumSubs RealDataSet       *)
(* children.  A T* of old_data_ is the slot it points at, [sub, pos], and    *)
(* whether the object it pointed at is still alive there: a child's          *)
(* push_back that reallocates kills every pointer into that child, an erase  *)
(* destroys the object in the child's last slot.                             *)

NumSubs == 2

\* The wrapper holds at most MaxCount items, drawn from TestData(1) ..
\* TestData(NumItems).
MaxCount == 2
NumItems == 2

\* Pandora::Hash(const T&): TestData::Hash() combines value and name; the
\* hash is kept as a value of its own kind that is determined by the item.
Hash(item) == <<"Hash", item>>

\* WrapperDataSet::GetDataCount
RECURSIVE WrapperGetDataCountFrom(_, _)
WrapperGetDataCountFrom(subs, k) ==
  IF k > Len(subs) THEN 0
  ELSE Len(subs[k]) + WrapperGetDataCountFrom(subs, k + 1)

WrapperGetDataCount(subs) == WrapperGetDataCountFrom(subs, 1)

\* WrapperDataSet::RebuildSubNodes: the start_index_ it gives child k.
RebuildSubNodes(subs, k) ==
  WrapperGetDataCount(subs) - WrapperGetDataCountFrom(subs, k)

\* WrapperDataSet::RetrieveAdapterByDataIndex2: the child holding the index
\* and the index resolved in that child.
RetrieveAdapterByDataIndex2(subs, index) ==
  LET k == CHOOSE c \in 1 .. Len(subs) :
             /\ RebuildSubNodes(subs, c) <= index
             /\ index < RebuildSubNodes(subs, c) + Len(subs[c])
  IN [sub |-> k, pos |-> index - RebuildSubNodes(subs, k)]

\* WrapperDataSet::GetDataByIndex for an index in range: &data_[pos] of the
\* child found.
WrapperGetDataByIndex(subs, index) ==
  LET target == RetrieveAdapterByDataIndex2(subs, index)
  IN [sub |-> target.sub, pos |-> target.pos, live |-> TRUE]

\* WrapperDataSet::Snapshot: the values old_data_ and old_data_hashes_ take.
WrapperSnapshot(subs) ==
  LET count == WrapperGetDataCount(subs)
      data(i) == WrapperGetDataByIndex(subs, i)
  IN [old_data |-> [i \in 1 .. count |-> data(i - 1)],
      hashes |-> [i \in 1 .. count |->
                    Hash(subs[data(i - 1).sub][data(i - 1).pos + 1])]]

\* WrapperDataSet::InTransaction; parent_ is nullptr.
WrapperInTransaction == wrapper_use_transaction_

\* WrapperDataSet::OnBeforeChanged: the snapshot kept after it.
WrapperOnBeforeChanged ==
  IF ~WrapperInTransaction THEN WrapperSnapshot(subs_)
  ELSE [old_data |-> wrapper_old_data_, hashes |-> wrapper_old_data_hashes_]

\* std::vector::push_back in child k, seen from the pointers kept: when the
\* vector reallocates, the objects pointed at are gone.
AfterPushBack(old_data, k, realloc) ==
  [i \in DOMAIN old_data |->
     IF old_data[i].sub = k /\ realloc
     THEN [old_data[i] EXCEPT !.live = FALSE] ELSE old_data[i]]

\* std::vector::erase in child k whose size was size: the later objects move
\* down one slot and the object in the last slot is destroyed.
AfterErase(old_data, k, size) ==
  [i \in DOMAIN old_data |->
     IF old_data[i].sub = k /\ old_data[i].pos = size - 1
     THEN [old_data[i] EXCEPT !.live = FALSE] ELSE old_data[i]]

\* The entries of old_data_ whose object is gone; reading through one is
\* undefined.
Dangling(old_data) == {i \in DOMAIN old_data : ~old_data[i].live}

\* What a read through a dangling pointer can yield: any item, or 0 for
\* bytes that equal no item.
Garbage == 0 .. NumItems

\* DiffCallbackImpl: the old list as AreItemsTheSame and AreContentsTheSame
\* see it.  Pandora::Equals compares what the pointers point at now, the
\* hash is the one taken by Snapshot.
DiffCallbackImplOld(subs, old_data, hashes, seen) ==
  [i \in DOMAIN old_data |->
     [id |-> IF old_data[i].live
             THEN subs[old_data[i].sub][old_data[i].pos + 1]
             ELSE seen[i],
      content |-> hashes[i]]]

\* DiffCallbackImpl: the new list, dataset_->GetDataByIndex(j) and its hash.
DiffCallbackImplNew(subs) ==
  [j \in 1 .. WrapperGetDataCount(subs) |->
     LET data == WrapperGetDataByIndex(subs, j - 1)
         item == subs[data.sub][data.pos + 1]
     IN [id |-> item, content |-> Hash(item)]]

\* The call made and whether the caller had a transaction open on the
\* wrapper when making it (open: whether one is open after it).
WrapperCall(op) ==
  [op |-> op, in_transaction |-> wrapper_call.open,
   open |-> IF op = "StartTransaction" THEN TRUE
            ELSE IF op = "EndTransaction" THEN FALSE
            ELSE wrapper_call.open]

\* A WrapperDataSet with a fresh callback after AddChild of NumSubs empty
\* RealDataSets.
NewWrapper ==
  /\ subs_ = [k \in 1 .. NumSubs |-> <<>>]
  /\ wrapper_old_data_ = <<>>
  /\ wrapper_old_data_hashes_ = <<>>
  /\ wrapper_use_transaction_ = FALSE
  /\ wrapper_call = [op |-> "none", in_transaction |-> FALSE, open |-> FALSE]

----------------------------------------------------------------------------
(* The state machine: one DiffCallback over two lists, one CalculateDiff,    *)
(* then position conversions and one DispatchUpdatesTo on its result.        *)

Ids == 1 .. NumIds
OldItems == [id : Ids, content : {0}]
NewItems == [id : Ids, content : Contents]
ListsOf(items) == UNION {[1 .. n -> items] : n \in 0 .. MaxLen}

\* Identities are opaque to DiffUtil (it only asks the callback whether two
\* are the same), so the lists are enumerated up to a renaming of the
\* identities: each identity first appears, reading old then new, after all
\* smaller ones.
FirstUseOrder(l) ==
  \A i \in 1 .. Len(l) :
    1 .. l[i].id - 1 \subseteq {l[j].id : j \in 1 .. i - 1}

NoRet == [call |-> "none", arg |-> 0, result |-> Returns(0)]

Init ==
  /\ old \in ListsOf(OldItems)
  /\ FirstUseOrder(old)
  /\ new \in ListsOf(NewItems)
  /\ FirstUseOrder(old \o new)
  /\ detect_moves = FALSE
  /\ pc = "start"
  /\ snakes_ = EmptyVec
  /\ old_item_statuses_ = EmptyVec
  /\ new_item_statuses_ = EmptyVec
  /\ old_list_size_ = 0
  /\ new_list_size_ = 0
  /\ detect_moves_ = FALSE
  /\ updates = <<>>
  /\ fault = "none"
  /\ ret = NoRet
  /\ contents_calls = {}
  /\ locals = NoLocals
  /\ payload_calls = {}
  /\ NewDataSet
  /\ NewWrapper

\* The end of CalculateDiff, with st the locals the loop has left: the
\* inconsistency report, or the sort and the DiffResult constructor
\* (AddRootSnake, FindMatchingItems).  The constructor's calls of
\* AreItemsTheSame join those of the loop.
ConstructResult(st, dm) ==
  IF st.thrown
  THEN /\ pc' = "fault"
       /\ fault' = "inconsistency"
       /\ locals' = st
       /\ UNCHANGED <<snakes_, old_item_statuses_, new_item_statuses_,
                      old_list_size_, new_list_size_, detect_moves_,
                      contents_calls>>
  ELSE \E sorted \in SortedOrders(st.snakes) :
         LET rooted == AddRootSnake(sorted)
             s == FindMatchingItems(rooted, StoredDetectMoves(dm),
                                    GetOldListSize, GetNewListSize)
         IN /\ snakes_' = rooted
            /\ old_item_statuses_' = s.o
            /\ new_item_statuses_' = s.n
            /\ old_list_size_' = GetOldListSize
            /\ new_list_size_' = GetNewListSize
            /\ detect_moves_' = StoredDetectMoves(dm)
            /\ contents_calls' = s.contents
            /\ locals' = [st EXCEPT !.items = @ \cup s.items]
            /\ pc' = "built"
            /\ fault' = "none"

\* DiffUtil::CalculateDiff(cb, detect_moves): the range stack loop, the sort,
\* and the DiffResult constructor.
CalculateDiff(dm) ==
  /\ pc = "start"
  /\ detect_moves' = dm
  /\ LET old_size == GetOldListSize
         new_size == GetNewListSize
         max == old_size + new_size + Abs(old_size - new_size)
     IN ConstructResult(RunStack(CalcLocals(old_size, new_size), max), dm)
  /\ UNCHANGED <<old, new, updates, ret, payload_calls>>
  /\ UNCHANGED <<dsvars, wvars>>

\* DiffUtil::CalculateDiff(cb): the default entry point
CalculateDiffDefault == CalculateDiff(TRUE)

\* DiffUtil::CalculateDiff(cb, detect_moves)
CalculateDiffExplicit == \E dm \in BOOLEAN : CalculateDiff(dm)

\* A call of ConvertOldPositionToNew on the constructed result; ret keeps
\* what it returned.  The conversions are const, so a call sees the result
\* as any earlier call saw it: one call per result is followed.
CallConvertOldPositionToNew ==
  /\ pc = "built"
  /\ pc' = "converted"
  /\ \E i \in -1 .. old_list_size_ :
       ret' = [call |-> "ConvertOldPositionToNew", arg |-> i,
               result |-> ConvertOldPositionToNew(i)]
  /\ UNCHANGED <<old, new, detect_moves, snakes_, old_item_statuses_,
                 new_item_statuses_, old_list_size_, new_list_size_,
                 detect_moves_, updates, fault, contents_calls, locals,
                 payload_calls>>
  /\ UNCHANGED <<dsvars, wvars>>

\* A call of ConvertNewPositionToOld on the result
CallConvertNewPositionToOld ==
  /\ pc = "built"
  /\ pc' = "converted"
  /\ \E j \in -1 .. new_list_size_ :
       ret' = [call |-> "ConvertNewPositionToOld", arg |-> j,
               result |-> ConvertNewPositionToOld(j)]
  /\ UNCHANGED <<old, new, detect_moves, snakes_, old_item_statuses_,
                 new_item_statuses_, old_list_size_, new_list_size_,
                 detect_moves_, updates, fault, contents_calls, locals,
                 payload_calls>>
  /\ UNCHANGED <<dsvars, wvars>>

\* A call of DispatchUpdatesTo on the result, with a fresh
\* TestListUpdateCallback.
CallDispatchUpdatesTo ==
  /\ pc = "built"
  /\ LET d == DispatchUpdatesTo IN
       /\ updates' = d.updates
       /\ fault' = d.fault
       /\ payload_calls' = d.payloads
       /\ pc' = IF d.fault = "none" THEN "dispatched" ELSE "fault"
  /\ ret' = NoRet
  /\ UNCHANGED <<old, new, detect_moves, snakes_, old_item_statuses_,
                 new_item_statuses_, old_list_size_, new_list_size_,
                 detect_moves_, contents_calls, locals>>
  /\ UNCHANGED <<dsvars, wvars>>

\* Longer lists over more identities, every item with content 0: the
\* callback answers AreContentsTheSame as it answers AreItemsTheSame.
LongItems == [id : 1 .. LongIds, content : {0}]
LongListsOf(items) == UNION {[1 .. n -> items] : n \in 0 .. LongLen}

InitLong ==
  /\ old \in LongListsOf(LongItems)
  /\ FirstUseOrder(old)
  /\ new \in LongListsOf(LongItems)
  /\ FirstUseOrder(old \o new)
  /\ detect_moves = FALSE
  /\ pc = "start"
  /\ snakes_ = EmptyVec
  /\ old_item_statuses_ = EmptyVec
  /\ new_item_statuses_ = EmptyVec
  /\ old_list_size_ = 0
  /\ new_list_size_ = 0
  /\ detect_moves_ = FALSE
  /\ updates = <<>>
  /\ fault = "none"
  /\ ret = NoRet
  /\ contents_calls = {}
  /\ locals = NoLocals
  /\ payload_calls = {}
  /\ NewDataSet
  /\ NewWrapper

\* Building a result and dispatching it.
Next ==
  \/ CalculateDiffDefault
  \/ CalculateDiffExplicit
  \/ CallDispatchUpdatesTo

Spec == Init /\ [][Next]_vars

\* The same operations on the longer lists.
SpecLong == InitLong /\ [][Next]_vars

\* CalculateDiff followed through its loop: the call up to the first test of
\* while (!stack.empty()).
EnterLoop(dm) ==
  /\ pc = "start"
  /\ pc' = "loop"
  /\ detect_moves' = dm
  /\ locals' = CalcLocals(GetOldListSize, GetNewListSize)
  /\ UNCHANGED <<old, new, snakes_, old_item_statuses_, new_item_statuses_,
                 old_list_size_, new_list_size_, detect_moves_, updates,
                 fault, ret, contents_calls, payload_calls>>
  /\ UNCHANGED <<dsvars, wvars>>

\* while (!stack.empty()), unless DiffPartial has thrown
InLoop == pc = "loop" /\ ~locals.thrown /\ VecLen(locals.stack) > 0

\* The loop is over.
LoopDone == pc = "loop" /\ (locals.thrown \/ VecLen(locals.stack) = 0)

\* One iteration of the loop.
LoopIteration ==
  /\ InLoop
  /\ locals' = RangeStep(locals, GetOldListSize + GetNewListSize
                                   + Abs(GetOldListSize - GetNewListSize))
  /\ UNCHANGED <<old, new, detect_moves, pc, snakes_, old_item_statuses_,
                 new_item_statuses_, old_list_size_, new_list_size_,
                 detect_moves_, updates, fault, ret, contents_calls,
                 payload_calls>>
  /\ UNCHANGED <<dsvars, wvars>>

\* The loop left, by the stack found empty or by the exception of
\* DiffPartial, and the rest of CalculateDiff.
LeaveLoop ==
  /\ LoopDone
  /\ ConstructResult(locals, detect_moves)
  /\ UNCHANGED <<old, new, detect_moves, updates, ret, payload_calls>>
  /\ UNCHANGED <<dsvars, wvars>>

EnterLoopExplicit == \E dm \in BOOLEAN : EnterLoop(dm)

NextLoop ==
  \/ EnterLoopExplicit
  \/ LoopIteration
  \/ LeaveLoop

\* The lists of Init whose items all have content 0: the loop asks
\* AreItemsTheSame only.
InitLoop == Init /\ \A j \in DOMAIN new : new[j].content = 0

\* A call of CalculateDiff runs on its caller's thread, which keeps going:
\* each step of the call that can be taken is taken.  The weak fairness of
\* LoopIteration and of LeaveLoop is written with their guards, which are
\* what enables them: an iteration always pops the stack, and leaving the
\* loop always changes pc.
SpecLoop ==
  /\ InitLoop
  /\ [][NextLoop]_vars
  /\ WF_vars(EnterLoopExplicit)
  /\ ([]<>~InLoop \/ []<><<LoopIteration>>_vars)
  /\ ([]<>~LoopDone \/ []<><<LeaveLoop>>_vars)

\* Building a result and converting a position on it.
NextConvert ==
  \/ CalculateDiffDefault
  \/ CalculateDiffExplicit
  \/ CallConvertOldPositionToNew
  \/ CallConvertNewPositionToOld

SpecConvert == Init /\ [][NextConvert]_vars

\* The items put into the data set: TestData(1) .. TestData(NumIds).
TestData == 1 .. NumIds

\* A data set that is constructed, given a callback and then mutated; no
\* diff is calculated.
InitDataSet ==
  /\ old = <<>>
  /\ new = <<>>
  /\ detect_moves = FALSE
  /\ pc = "start"
  /\ snakes_ = EmptyVec
  /\ old_item_statuses_ = EmptyVec
  /\ new_item_statuses_ = EmptyVec
  /\ old_list_size_ = 0
  /\ new_list_size_ = 0
  /\ detect_moves_ = FALSE
  /\ updates = <<>>
  /\ fault = "none"
  /\ ret = NoRet
  /\ contents_calls = {}
  /\ locals = NoLocals
  /\ payload_calls = {}
  /\ NewDataSet
  /\ NewWrapper

CallAdd == (\E item \in TestData : Add(item)) /\ UNCHANGED <<diffvars, wvars, transaction>>

CallAddAt ==
  /\ \E pos \in -1 .. MaxLen : \E item \in TestData : AddAt(pos, item)
  /\ UNCHANGED <<diffvars, wvars, transaction>>

CallRemoveAtPos ==
  (\E position \in -1 .. MaxLen : RemoveAtPos(position)) /\ UNCHANGED <<diffvars, wvars, transaction>>

CallStartTransaction == StartTransaction /\ UNCHANGED <<diffvars, wvars, transaction>>

CallEndTransaction == EndTransaction /\ UNCHANGED <<diffvars, wvars, transaction>>

NextDataSet ==
  \/ CallAdd
  \/ CallAddAt
  \/ CallRemoveAtPos
  \/ CallStartTransaction
  \/ CallEndTransaction

SpecDataSet == InitDataSet /\ [][NextDataSet]_vars

----------------------------------------------------------------------------
(* Transaction<TestData> on the data set.  Apply runs func between Prepare   *)
(* and its return, and transaction.pc is its position: func makes up to      *)
(* MaxMutations data mutations on the adapter it is handed, then returns or  *)
(* throws.                                                                   *)

MaxMutations == 2

\* What func can throw: something derived from std::exception, or not.
Thrown == {"std::exception", "other"}

\* Transaction::Apply's handlers: catch (const std::exception&), catch (...)
Caught(thrown) == thrown = "std::exception" \/ thrown \in Thrown

\* Transaction::Apply is called: Prepare.
TransactionPrepare ==
  /\ transaction.pc # "func"
  /\ StartTransaction
  /\ transaction' = [NoApply EXCEPT !.pc = "func", !.entry = data_]
  /\ UNCHANGED <<diffvars, wvars>>

\* func makes one data mutation on the adapter.
FuncMutation ==
  /\ transaction.pc = "func"
  /\ transaction.mutations < MaxMutations
  /\ \/ \E item \in 1 .. NumItems : Add(item)
     \/ \E pos \in -1 .. MaxLen : \E item \in 1 .. NumItems : AddAt(pos, item)
     \/ \E position \in -1 .. MaxLen : RemoveAtPos(position)
     \/ \E position \in -1 .. MaxLen : \E item \in 1 .. NumItems :
          ReplaceAtPosIfExist(position, item)
     \/ ClearAllData
  /\ transaction' = [transaction EXCEPT !.mutations = @ + 1]
  /\ UNCHANGED <<diffvars, wvars>>

\* func throws: the handler that catches it calls Restore, Apply returns.
FuncThrows ==
  /\ transaction.pc = "func"
  /\ \E thrown \in Thrown :
       /\ data_' = IF Caught(thrown) THEN Restore ELSE data_
       /\ transaction' = [transaction EXCEPT !.pc = "returned",
                                             !.threw = TRUE,
                                             !.changed = data_ # transaction.entry,
                                             !.escaped = ~Caught(thrown)]
  /\ last_call' = Call("Restore", -1)
  /\ UNCHANGED <<old_data_, use_transaction_, events>>
  /\ UNCHANGED <<diffvars, wvars>>

\* func returns: Apply returns.
FuncReturns ==
  /\ transaction.pc = "func"
  /\ transaction' = [transaction EXCEPT !.pc = "returned"]
  /\ last_call' = Call("Apply", -1)
  /\ UNCHANGED <<data_, old_data_, use_transaction_, events>>
  /\ UNCHANGED <<diffvars, wvars>>

\* A data set filled by Add calls before the Transaction is constructed, as
\* in TEST(TransactionTest, TransactionRollback): old_data_ is the snapshot
\* the last Add took.
InitTransaction ==
  /\ old = <<>>
  /\ new = <<>>
  /\ detect_moves = FALSE
  /\ pc = "start"
  /\ snakes_ = EmptyVec
  /\ old_item_statuses_ = EmptyVec
  /\ new_item_statuses_ = EmptyVec
  /\ old_list_size_ = 0
  /\ new_list_size_ = 0
  /\ detect_moves_ = FALSE
  /\ updates = <<>>
  /\ fault = "none"
  /\ ret = NoRet
  /\ contents_calls = {}
  /\ locals = NoLocals
  /\ payload_calls = {}
  /\ data_ \in UNION {[1 .. n -> 1 .. NumItems] : n \in 0 .. MaxCount}
  /\ old_data_ = SubSeq(data_, 1, Len(data_) - 1)
  /\ use_transaction_ = FALSE
  /\ events = <<>>
  /\ last_call = NoCall
  /\ transaction = NoApply
  /\ NewWrapper

NextTransaction ==
  \/ TransactionPrepare
  \/ FuncMutation
  \/ FuncThrows
  \/ FuncReturns

SpecTransaction == InitTransaction /\ [][NextTransaction]_vars

----------------------------------------------------------------------------
(* The wrapper's operations.  A call that reaches CalcChangeAndNotify runs   *)
(* in three steps, and pc is its position: the call itself up to the         *)
(* construction of the DiffCallbackImpl (pc "start"), CalculateDiff (pc      *)
(* "built") and DispatchUpdatesTo on the wrapper's callback; no other call   *)
(* is taken before the running one has returned.  updates holds the events   *)
(* the callback received from the last call.                                 *)

\* No call is running on the wrapper.
Returned == pc \in {"idle", "dispatched", "fault"}

\* The locals of the previous CalcChangeAndNotify are gone.
NoDiffResult ==
  /\ detect_moves' = FALSE
  /\ snakes_' = EmptyVec
  /\ old_item_statuses_' = EmptyVec
  /\ new_item_statuses_' = EmptyVec
  /\ old_list_size_' = 0
  /\ new_list_size_' = 0
  /\ detect_moves_' = FALSE
  /\ updates' = <<>>
  /\ ret' = NoRet
  /\ contents_calls' = {}
  /\ locals' = NoLocals
  /\ payload_calls' = {}

\* WrapperDataSet::CalcChangeAndNotify on the wrapper as the call leaves it:
\* the DiffCallbackImpl over old_data_ and the children, handed to
\* DiffUtil::CalculateDiff.  A read through a dangling pointer yields any of
\* Garbage, or ends the call.
CalcChangeAndNotify(subs, old_data, hashes) ==
  /\ new' = DiffCallbackImplNew(subs)
  /\ \E seen \in [Dangling(old_data) -> Garbage] :
       old' = DiffCallbackImplOld(subs, old_data, hashes, seen)
  /\ \/ /\ pc' = "start"
        /\ fault' = "none"
     \/ /\ Dangling(old_data) # {}
        /\ WrapperGetDataCount(subs) > 0
        /\ pc' = "fault"
        /\ fault' = "dangling_read"
  /\ NoDiffResult

\* A call that reaches no CalcChangeAndNotify.
NoNotify ==
  /\ old' = <<>>
  /\ new' = <<>>
  /\ pc' = "idle"
  /\ fault' = "none"
  /\ NoDiffResult

\* WrapperDataSet::OnAfterChanged, after RebuildSubNodes
WrapperOnAfterChanged(subs, old_data, hashes) ==
  IF ~WrapperInTransaction THEN CalcChangeAndNotify(subs, old_data, hashes)
  ELSE NoNotify

\* WrapperDataSet::StartTransaction
WrapperStartTransaction ==
  /\ Returned
  /\ wrapper_use_transaction_' = TRUE
  /\ wrapper_old_data_' = WrapperSnapshot(subs_).old_data
  /\ wrapper_old_data_hashes_' = WrapperSnapshot(subs_).hashes
  /\ wrapper_call' = WrapperCall("StartTransaction")
  /\ UNCHANGED subs_
  /\ NoNotify
  /\ UNCHANGED dsvars

\* WrapperDataSet::EndTransaction
WrapperEndTransaction ==
  /\ Returned
  /\ wrapper_use_transaction_' = FALSE
  /\ wrapper_call' = WrapperCall("EndTransaction")
  /\ UNCHANGED <<subs_, wrapper_old_data_, wrapper_old_data_hashes_>>
  /\ CalcChangeAndNotify(subs_, wrapper_old_data_, wrapper_old_data_hashes_)
  /\ UNCHANGED dsvars

\* WrapperDataSet::Add(const T& item): StartTransaction, subs_.back()->Add,
\* EndTransaction.
WrapperAdd(item) ==
  /\ Returned
  /\ WrapperGetDataCount(subs_) < MaxCount
  /\ \E realloc \in BOOLEAN :
       LET snap == WrapperSnapshot(subs_)
           k == Len(subs_)
           subs == [subs_ EXCEPT ![k] = Append(@, item)]
           old_data == AfterPushBack(snap.old_data, k, realloc)
       IN /\ subs_' = subs
          /\ wrapper_old_data_' = old_data
          /\ wrapper_old_data_hashes_' = snap.hashes
          /\ CalcChangeAndNotify(subs, old_data, snap.hashes)
  /\ wrapper_use_transaction_' = FALSE
  /\ wrapper_call' = WrapperCall("Add")
  /\ UNCHANGED dsvars

\* WrapperDataSet::RemoveAtPos: StartTransaction, the child's RemoveAtPos
\* when the position is in range, EndTransaction.
WrapperRemoveAtPos(position) ==
  /\ Returned
  /\ LET snap == WrapperSnapshot(subs_)
         in_range == position >= 0 /\ position < WrapperGetDataCount(subs_)
         target == RetrieveAdapterByDataIndex2(subs_, position)
         subs == IF in_range
                 THEN [subs_ EXCEPT ![target.sub] =
                         SubSeq(@, 1, target.pos)
                           \o SubSeq(@, target.pos + 2, Len(@))]
                 ELSE subs_
         old_data == IF in_range
                     THEN AfterErase(snap.old_data, target.sub,
                                     Len(subs_[target.sub]))
                     ELSE snap.old_data
     IN /\ subs_' = subs
        /\ wrapper_old_data_' = old_data
        /\ wrapper_old_data_hashes_' = snap.hashes
        /\ CalcChangeAndNotify(subs, old_data, snap.hashes)
  /\ wrapper_use_transaction_' = FALSE
  /\ wrapper_call' = WrapperCall("RemoveAtPos")
  /\ UNCHANGED dsvars

\* RealDataSet::Add on child k: OnBeforeChanged reaches the wrapper, the
\* push_back, then OnAfterChanged reaches the wrapper.
ChildAdd(k, item) ==
  /\ Returned
  /\ WrapperGetDataCount(subs_) < MaxCount
  /\ \E realloc \in BOOLEAN :
       LET snap == WrapperOnBeforeChanged
           subs == [subs_ EXCEPT ![k] = Append(@, item)]
           old_data == AfterPushBack(snap.old_data, k, realloc)
       IN /\ subs_' = subs
          /\ wrapper_old_data_' = old_data
          /\ wrapper_old_data_hashes_' = snap.hashes
          /\ WrapperOnAfterChanged(subs, old_data, snap.hashes)
  /\ wrapper_call' = WrapperCall("ChildAdd")
  /\ UNCHANGED wrapper_use_transaction_
  /\ UNCHANGED dsvars

\* RealDataSet::RemoveAtPos on child k: nothing happens for a position out
\* of range.
ChildRemoveAtPos(k, position) ==
  /\ Returned
  /\ IF position < 0 \/ position >= Len(subs_[k])
     THEN /\ UNCHANGED <<subs_, wrapper_old_data_, wrapper_old_data_hashes_>>
          /\ NoNotify
     ELSE LET snap == WrapperOnBeforeChanged
              subs == [subs_ EXCEPT ![k] =
                         SubSeq(@, 1, position)
                           \o SubSeq(@, position + 2, Len(@))]
              old_data == AfterErase(snap.old_data, k, Len(subs_[k]))
          IN /\ subs_' = subs
             /\ wrapper_old_data_' = old_data
             /\ wrapper_old_data_hashes_' = snap.hashes
             /\ WrapperOnAfterChanged(subs, old_data, snap.hashes)
  /\ wrapper_call' = WrapperCall("ChildRemoveAtPos")
  /\ UNCHANGED wrapper_use_transaction_
  /\ UNCHANGED dsvars

CallWrapperAdd == \E item \in 1 .. NumItems : WrapperAdd(item)

CallWrapperRemoveAtPos ==
  \E position \in -1 .. MaxCount : WrapperRemoveAtPos(position)

CallChildAdd ==
  \E k \in 1 .. NumSubs : \E item \in 1 .. NumItems : ChildAdd(k, item)

CallChildRemoveAtPos ==
  \E k \in 1 .. NumSubs : \E position \in -1 .. MaxCount :
    ChildRemoveAtPos(k, position)

\* A wrapper with its children attached, mutated through the wrapper and
\* through the children, inside and outside transactions; the last two
\* disjuncts are the diff of a running CalcChangeAndNotify.
NextWrapper ==
  \/ WrapperStartTransaction
  \/ WrapperEndTransaction
  \/ CallWrapperAdd
  \/ CallWrapperRemoveAtPos
  \/ CallChildAdd
  \/ CallChildRemoveAtPos
  \/ CalculateDiffDefault
  \/ CallDispatchUpdatesTo

InitWrapper ==
  /\ old = <<>>
  /\ new = <<>>
  /\ detect_moves = FALSE
  /\ pc = "idle"
  /\ snakes_ = EmptyVec
  /\ old_item_statuses_ = EmptyVec
  /\ new_item_statuses_ = EmptyVec
  /\ old_list_size_ = 0
  /\ new_list_size_ = 0
  /\ detect_moves_ = FALSE
  /\ updates = <<>>
  /\ fault = "none"
  /\ ret = NoRet
  /\ contents_calls = {}
  /\ locals = NoLocals
  /\ payload_calls = {}
  /\ NewDataSet
  /\ NewWrapper

SpecWrapper == InitWrapper /\ [][NextWrapper]_vars

----------------------------------------------------------------------------
(* Vocabulary of the properties *)

Built == pc \in {"built", "converted", "dispatched"}
Dispatched == pc = "dispatched"
OldIndices == 0 .. Len(old) - 1
NewIndices == 0 .. Len(new) - 1

\* Replaying the callbacks on a copy of old.  An entry of the copy is an old
\* item (src: its 1-based place in old) or an inserted one (src = 0);
\* changed records that an OnChanged covered it.
StartCopy == [i \in 1 .. Len(old) |-> [src |-> i, changed |-> FALSE]]
Inserted(count) == [i \in 1 .. count |-> [src |-> 0, changed |-> FALSE]]

Applicable(l, u) ==
  CASE u.type = "INSERT" ->
         u.position >= 0 /\ u.position <= Len(l) /\ u.count >= 1
    [] u.type = "REMOVE" ->
         u.position >= 0 /\ u.count >= 1 /\ u.position + u.count <= Len(l)
    [] u.type = "MOVE" ->
         /\ u.position >= 0 /\ u.position < Len(l)
         /\ u.to_position >= 0 /\ u.to_position < Len(l)
    [] u.type = "CHANGE" ->
         u.position >= 0 /\ u.count >= 0 /\ u.position + u.count <= Len(l)

Apply(l, u) ==
  CASE u.type = "INSERT" ->
         SubSeq(l, 1, u.position) \o Inserted(u.count)
           \o SubSeq(l, u.position + 1, Len(l))
    [] u.type = "REMOVE" ->
         SubSeq(l, 1, u.position)
           \o SubSeq(l, u.position + u.count + 1, Len(l))
    [] u.type = "MOVE" ->
         LET item == l[u.position + 1]
             without == SubSeq(l, 1, u.position)
                          \o SubSeq(l, u.position + 2, Len(l))
         IN SubSeq(without, 1, u.to_position) \o <<item>>
              \o SubSeq(without, u.to_position + 1, Len(without))
    [] u.type = "CHANGE" ->
         [i \in 1 .. Len(l) |->
            IF u.position < i /\ i <= u.position + u.count
            THEN [l[i] EXCEPT !.changed = TRUE] ELSE l[i]]

RECURSIVE Replay(_, _, _)
Replay(l, us, k) ==
  IF k > Len(us) THEN [ok |-> TRUE, list |-> l]
  ELSE IF ~Applicable(l, us[k]) THEN [ok |-> FALSE, list |-> l]
       ELSE Replay(Apply(l, us[k]), us, k + 1)

\* The replayed copy equals new item by item: an inserted entry stands for
\* the new item at its place, an old entry must be the same item as the new
\* one at its place and, unless an OnChanged replaced its content, carry
\* the same content.
ReplayYieldsNew ==
  LET r == Replay(StartCopy, updates, 1) IN
  /\ r.ok
  /\ Len(r.list) = Len(new)
  /\ \A i \in 1 .. Len(new) :
       \/ r.list[i].src = 0
       \/ /\ old[r.list[i].src].id = new[i].id
          /\ r.list[i].changed \/ old[r.list[i].src].content = new[i].content

RECURSIVE CountSum(_, _, _)
CountSum(us, types, k) ==
  IF k > Len(us) THEN 0
  ELSE (IF us[k].type \in types THEN us[k].count ELSE 0)
         + CountSum(us, types, k + 1)

\* Length of the longest common subsequence, under AreItemsTheSame, of the
\* first i old items and the first j new items.
RECURSIVE LCS(_, _)
LCS(i, j) ==
  IF i = 0 \/ j = 0 THEN 0
  ELSE IF AreItemsTheSame(i - 1, j - 1) THEN LCS(i - 1, j - 1) + 1
       ELSE LET a == LCS(i - 1, j)
                b == LCS(i, j - 1)
            IN IF a >= b THEN a ELSE b

DistinctIds(l) == \A i, j \in 1 .. Len(l) : l[i].id = l[j].id => i = j

\* l with its p-th entry (0-based) deleted
Without(l, p) == SubSeq(l, 1, p) \o SubSeq(l, p + 2, Len(l))

\* old and new are the same list: same length, same item and same content
\* at every index.
SameLists ==
  /\ Len(old) = Len(new)
  /\ \A i \in OldIndices : AreItemsTheSame(i, i) /\ AreContentsTheSame(i, i)

----------------------------------------------------------------------------
(* C1 .. C10 *)

\* C1: Replay.  For every pair of lists and for detect_moves true and false,
\* applying the callbacks DispatchUpdatesTo emitted, in order, to a copy of
\* old yields a list equal to new, item by item.
C1_Replay == Dispatched => ReplayYieldsNew

\* C2: Position-conversion consistency.  For every old index i with
\* ConvertOldPositionToNew(i) = j # NO_POSITION, ConvertNewPositionToOld(j) = i;
\* and for every new index j with ConvertNewPositionToOld(j) = i # NO_POSITION,
\* ConvertOldPositionToNew(i) = j.
C2_ConversionConsistency ==
  /\ (ret.call = "ConvertOldPositionToNew" /\ ~ret.result.throws
        /\ ret.result.value # NO_POSITION)
       => ConvertNewPositionToOld(ret.result.value) = Returns(ret.arg)
  /\ (ret.call = "ConvertNewPositionToOld" /\ ~ret.result.throws
        /\ ret.result.value # NO_POSITION)
       => ConvertOldPositionToNew(ret.result.value) = Returns(ret.arg)

\* C3: Identity.  When old and new have the same length and every index
\* holds the same item with the same content, DispatchUpdatesTo completes
\* and emits no callback at all, for detect_moves true and false.
C3_Identity ==
  SameLists =>
    /\ fault = "none"
    /\ Dispatched => updates = <<>>

C3_Witness ==
  Dispatched /\ SameLists /\ Len(old) >= 2 /\ detect_moves

\* C4: Minimality.  With detect_moves = false the counts of all OnRemoved
\* callbacks plus the counts of all OnInserted callbacks sum to
\* oldSize + newSize - 2 * LCS(old, new).
C4_Minimality ==
  (Dispatched /\ ~detect_moves) =>
    CountSum(updates, {"REMOVE", "INSERT"}, 1)
      = Len(old) + Len(new) - 2 * LCS(Len(old), Len(new))

\* C5: No-move fallback.  A result built with detect_moves = false never
\* calls OnMoved during DispatchUpdatesTo, which completes; every callback
\* is OnRemoved, OnInserted or OnChanged.
C5_NoMoveFallback ==
  ~detect_moves =>
    /\ fault = "none"
    /\ \A k \in 1 .. Len(updates) :
         updates[k].type \in {"REMOVE", "INSERT", "CHANGE"}

\* old and new hold the same distinct items in different orders, the case
\* in which move detection would report moves.
C5_Witness ==
  /\ Dispatched /\ ~detect_moves
  /\ Len(old) = Len(new) /\ Len(old) >= 2 /\ DistinctIds(old)
  /\ {old[i].id : i \in 1 .. Len(old)} = {new[i].id : i \in 1 .. Len(new)}
  /\ \E i \in OldIndices : ~AreItemsTheSame(i, i)
  /\ Len(updates) >= 2

\* C6: Stored snakes are in global coordinates.  For every snake (x, y, size)
\* of a result and every j with 0 <= j < size: x + j < oldSize,
\* y + j < newSize and AreItemsTheSame(x + j, y + j).
C6_SnakesGlobal ==
  Built =>
    \A s \in DOMAIN snakes_ : \A j \in 0 .. snakes_[s].size - 1 :
      /\ snakes_[s].x + j < Len(old)
      /\ snakes_[s].y + j < Len(new)
      /\ AreItemsTheSame(snakes_[s].x + j, snakes_[s].y + j)

\* C7: A position conversion never returns an unrelated index.  For every
\* old index i, ConvertOldPositionToNew(i) is NO_POSITION or a new index j
\* with AreItemsTheSame(i, j); symmetrically for ConvertNewPositionToOld.
C7_ConversionSameItem ==
  /\ (ret.call = "ConvertOldPositionToNew" /\ ~ret.result.throws
        /\ ret.result.value # NO_POSITION)
       => /\ ret.result.value \in NewIndices
          /\ AreItemsTheSame(ret.arg, ret.result.value)
  /\ (ret.call = "ConvertNewPositionToOld" /\ ~ret.result.throws
        /\ ret.result.value # NO_POSITION)
       => /\ ret.result.value \in OldIndices
          /\ AreItemsTheSame(ret.result.value, ret.arg)

\* C8 as claimed: through the default entry point (detect_moves = true) an
\* empty old list and a new list of n >= 1 items produce exactly one
\* callback, OnInserted(0, n); an old list of n >= 1 items and an empty
\* new list produce exactly one callback, OnRemoved(0, n).
C8_CoalescedBoundary ==
  (Dispatched /\ detect_moves) =>
    /\ (Len(old) = 0 /\ Len(new) >= 1)
         => updates = <<OnInserted(0, Len(new))>>
    /\ (Len(new) = 0 /\ Len(old) >= 1)
         => updates = <<OnRemoved(0, Len(old))>>

\* C8 as amended: through the default entry point (detect_moves = true) an
\* empty old list and a new list of n >= 1 items produce exactly n
\* callbacks, each OnInserted(0, 1); an old list of n >= 1 items and an
\* empty new list produce exactly n callbacks, OnRemoved(n-1, 1) down to
\* OnRemoved(0, 1).  The single coalesced callback OnInserted(0, n) or
\* OnRemoved(0, n) is what detect_moves = false produces.
C8_BoundaryPerItem ==
  /\ (Len(old) = 0 /\ Len(new) >= 1 /\ pc # "start") => fault = "none"
  /\ (Len(new) = 0 /\ Len(old) >= 1 /\ pc # "start") => fault = "none"
  /\ (Dispatched /\ detect_moves) =>
       /\ (Len(old) = 0 /\ Len(new) >= 1)
            => updates = [k \in 1 .. Len(new) |-> OnInserted(0, 1)]
       /\ (Len(new) = 0 /\ Len(old) >= 1)
            => updates = [k \in 1 .. Len(old) |-> OnRemoved(Len(old) - k, 1)]
  /\ (Dispatched /\ ~detect_moves) =>
       /\ (Len(old) = 0 /\ Len(new) >= 1)
            => updates = <<OnInserted(0, Len(new))>>
       /\ (Len(new) = 0 /\ Len(old) >= 1)
            => updates = <<OnRemoved(0, Len(old))>>

C8_Witness ==
  Dispatched /\ detect_moves /\ Len(old) = 0 /\ Len(new) >= 2 /\ Len(updates) >= 2

\* C9: Boundary totals.  With an empty old list and a non-empty new list the
\* dispatch completes, every callback is OnInserted and the counts sum to
\* newSize; with a non-empty old list and an empty new list every callback
\* is OnRemoved and the counts sum to oldSize (detect_moves true and false).
C9_BoundaryTotals ==
  /\ (Len(old) = 0 /\ Len(new) >= 1) =>
       /\ fault = "none"
       /\ Dispatched =>
            /\ \A k \in 1 .. Len(updates) : updates[k].type = "INSERT"
            /\ CountSum(updates, {"INSERT"}, 1) = Len(new)
  /\ (Len(new) = 0 /\ Len(old) >= 1) =>
       /\ fault = "none"
       /\ Dispatched =>
            /\ \A k \in 1 .. Len(updates) : updates[k].type = "REMOVE"
            /\ CountSum(updates, {"REMOVE"}, 1) = Len(old)

C9_Witness ==
  Dispatched /\ ~detect_moves /\ Len(new) = 0 /\ Len(old) >= 2
    /\ updates # <<>>

\* C10: Single removal.  When the items of old have pairwise distinct
\* identities and new is old with the one item at index p deleted, contents
\* unchanged, the dispatch stream is exactly one callback, OnRemoved(p, 1),
\* for every p in [0, oldSize).
C10_SingleRemoval ==
  \A p \in OldIndices :
    (DistinctIds(old) /\ new = Without(old, p)) =>
      /\ fault = "none"
      /\ Dispatched => updates = <<OnRemoved(p, 1)>>

\* A removal from the middle of a list of at least three items.
C10_Witness ==
  /\ Dispatched /\ DistinctIds(old) /\ Len(old) >= 3
  /\ new = Without(old, 1)
  /\ updates = <<OnRemoved(1, 1)>>

----------------------------------------------------------------------------
(* C11 .. C20 *)

\* new is old followed by one item whose identity no item of old has, the
\* others with their contents unchanged.
SingleAppend ==
  /\ Len(new) = Len(old) + 1
  /\ SubSeq(new, 1, Len(old)) = old
  /\ \A i \in 1 .. Len(old) : old[i].id # new[Len(new)].id

\* C11: Single append.  When new equals old followed by one additional item
\* whose identity matches no item of old, the dispatch completes and its
\* stream is exactly one callback, OnInserted(oldSize, 1).
C11_SingleAppend ==
  SingleAppend =>
    /\ fault = "none"
    /\ Dispatched => updates = <<OnInserted(Len(old), 1)>>

C11_Witness ==
  /\ Dispatched /\ SingleAppend /\ detect_moves /\ Len(old) >= 2
  /\ updates = <<OnInserted(Len(old), 1)>>

\* old and new have the same length and hold the same item at every index.
SameItemsInPlace ==
  /\ Len(old) = Len(new)
  /\ \A i \in OldIndices : AreItemsTheSame(i, i)

ChangedInPlace == {i \in OldIndices : ~AreContentsTheSame(i, i)}

\* C12: In-place change.  When old and new have the same length and the same
\* item at every index, the dispatch completes and its stream consists of
\* exactly one OnChanged(i, 1) for each index i whose contents differ, and of
\* no other callback.
C12_InPlaceChange ==
  SameItemsInPlace =>
    /\ fault = "none"
    /\ Dispatched =>
         /\ Len(updates) = Cardinality(ChangedInPlace)
         /\ \A i \in ChangedInPlace :
              \E k \in 1 .. Len(updates) : updates[k] = OnChanged(i, 1)

\* Two changed items next to each other, reported one by one.
C12_Witness ==
  /\ Dispatched /\ SameItemsInPlace
  /\ \E i \in OldIndices : {i, i + 1} \subseteq ChangedInPlace
  /\ Len(updates) >= 2

\* new is old with the items at p and p + 1 (0-based) exchanged.
SwappedAt(p) ==
  /\ Len(new) = Len(old)
  /\ p + 1 < Len(old)
  /\ \A i \in OldIndices :
       new[i + 1] = old[IF i = p THEN p + 2 ELSE IF i = p + 1 THEN p + 1 ELSE i + 1]

NumMoves == Cardinality({k \in 1 .. Len(updates) : updates[k].type = "MOVE"})

\* C13: Move detection.  When the items of old have pairwise distinct
\* identities, new is old with two adjacent items exchanged and
\* detect_moves = true, the dispatch completes and its stream contains
\* exactly one OnMoved callback.
C13_AdjacentSwap ==
  \A p \in OldIndices :
    (DistinctIds(old) /\ SwappedAt(p) /\ detect_moves) =>
      /\ fault = "none"
      /\ Dispatched => NumMoves = 1

\* C14: AreContentsTheSame(o, n) is called, while CalculateDiff builds the
\* result, only for pairs (o, n) for which AreItemsTheSame(o, n) is true.
C14_ContentsOnlySameItems ==
  \A c \in contents_calls : AreItemsTheSame(c[1], c[2])

\* C15: GetChangePayload(o, n) is called during DispatchUpdatesTo only for
\* pairs (o, n) for which AreItemsTheSame(o, n) is true and
\* AreContentsTheSame(o, n) is false, and that the status arrays record as
\* each other's counterparts.
C15_PayloadOnlyChangedPairs ==
  \A c \in payload_calls :
    /\ AreItemsTheSame(c[1], c[2])
    /\ ~AreContentsTheSame(c[1], c[2])
    /\ FlagOf(old_item_statuses_[c[1]]) # 0
    /\ PosOf(old_item_statuses_[c[1]]) = c[2]
    /\ FlagOf(new_item_statuses_[c[2]]) # 0
    /\ PosOf(new_item_statuses_[c[2]]) = c[1]

\* C16: The unknown-flag fault is unreachable.  For every result built with
\* detect_moves = true, DispatchUpdatesTo never throws "unknown flag": no
\* index of a removal or insertion gap carries NOT_CHANGED or CHANGED.
C16_NoUnknownFlag == detect_moves => fault # "unknown_flag"

\* The first DiffPartial call of CalculateDiff, on the whole of both lists.
FirstPartial ==
  LET st == CalcLocals(Len(old), Len(new)) IN
  DiffPartial(0, Len(old), 0, Len(new), st.forward, st.backward,
              Len(old) + Len(new) + Abs(Len(old) - Len(new)))

\* C17: The inconsistency fault is not raised for a stable oracle.  With
\* AreItemsTheSame a fixed relation, every DiffPartial call on a sub-range
\* with at least one item on each side returns a snake at some depth
\* d <= (oldLen + newLen + 1) / 2, so CalculateDiff never throws, for any
\* pair of lists.
C17_NoInconsistency ==
  /\ fault # "inconsistency"
  /\ (Len(old) >= 1 /\ Len(new) >= 1) =>
       /\ FirstPartial.kind = "snake"
       /\ FirstPartial.depth <= (Len(old) + Len(new) + 1) \div 2

\* The search of the whole range ends at the very depth limit.
C17_Witness ==
  /\ Built /\ Len(old) >= 2 /\ Len(new) >= 2
  /\ FirstPartial.kind = "snake"
  /\ FirstPartial.depth = (Len(old) + Len(new) + 1) \div 2

\* What the last conversion call must have done with its argument.
ThrowsExactlyOutOfRange ==
  /\ ret.call = "ConvertOldPositionToNew" =>
       (ret.result.throws <=> (ret.arg < 0 \/ ret.arg >= old_list_size_))
  /\ ret.call = "ConvertNewPositionToOld" =>
       (ret.result.throws <=> (ret.arg < 0 \/ ret.arg >= new_list_size_))
  /\ ret.call # "none" => old_list_size_ = Len(old) /\ new_list_size_ = Len(new)

\* C18: ConvertOldPositionToNew(i) throws out_of_range exactly when i < 0 or
\* i >= oldSize, and ConvertNewPositionToOld(j) exactly when j < 0 or
\* j >= newSize, the sizes being those captured at construction; a call,
\* throwing or not, leaves the snakes and both status arrays unchanged.
C18_OutOfRange ==
  /\ []ThrowsExactlyOutOfRange
  /\ [][(CallConvertOldPositionToNew \/ CallConvertNewPositionToOld)
          => UNCHANGED <<snakes_, old_item_statuses_, new_item_statuses_>>]_vars

C18_Witness ==
  /\ ret.call = "ConvertNewPositionToOld" /\ ret.result.throws
  /\ ret.arg = new_list_size_ /\ new_list_size_ >= 2

\* C19: Root snake.  After construction the snake list is non-empty and its
\* first element starts at x = 0, y = 0; that element is the root snake
\* (0, 0, size 0, removal false, reverse false), in front of the sorted
\* snakes, whenever these are none or the first of them does not start at
\* (0, 0), and every other snake has a positive size.
C19_RootSnake ==
  Built =>
    /\ VecLen(snakes_) >= 1
    /\ snakes_[0].x = 0 /\ snakes_[0].y = 0
    /\ snakes_[0].size = 0 =>
         /\ snakes_[0] = Snake(0, 0, 0, FALSE, FALSE)
         /\ VecLen(snakes_) >= 2 => (snakes_[1].x # 0 \/ snakes_[1].y # 0)
    /\ \A i \in DOMAIN snakes_ : i >= 1 => snakes_[i].size > 0

\* The root snake in front of a snake that starts elsewhere.
C19_Witness ==
  /\ Built /\ VecLen(snakes_) >= 2
  /\ snakes_[0] = Snake(0, 0, 0, FALSE, FALSE)
  /\ snakes_[1].x > 0

\* The events the callback received during the last call on the data set.
Delivered == SubSeq(events, last_call.events_before + 1, Len(events))

\* C20: A standalone RealDataSet that has a ListUpdateCallback set and is not
\* in a transaction delivers exactly one callback per single-item mutation:
\* Add(item) delivers OnInserted(index of the new item, 1), Add(pos, item)
\* delivers OnInserted(pos, 1) and RemoveAtPos(p) with p in range delivers
\* OnRemoved(p, 1).
C20_OneCallbackPerMutation ==
  (~last_call.in_transaction /\ last_call.pos >= 0) =>
    /\ last_call.op = "Add" =>
         (Delivered = <<OnInserted(last_call.pos, 1)>>
            /\ last_call.pos = Len(data_) - 1)
    /\ last_call.op = "AddAt" => Delivered = <<OnInserted(last_call.pos, 1)>>
    /\ last_call.op = "RemoveAtPos" => Delivered = <<OnRemoved(last_call.pos, 1)>>


----------------------------------------------------------------------------
\* C21: between StartTransaction() and the matching EndTransaction() on a
\* WrapperDataSet, no event is delivered to the wrapper's callback: a call
\* other than EndTransaction made on the wrapper or on a child while the
\* caller's transaction is open delivers nothing.
C21_NoCallbackInTransaction ==
  (wrapper_call.in_transaction /\ wrapper_call.op # "EndTransaction")
    => updates = <<>>

----------------------------------------------------------------------------
\* C22: when the function passed to Transaction::Apply makes data mutations
\* on a RealDataSet and then throws, the exception does not escape Apply and
\* the data set's contents right after Apply are its contents when Apply was
\* called.
C22_Rollback ==
  (transaction.pc = "returned" /\ transaction.threw
     /\ last_call.op = "Restore")
    => (~transaction.escaped /\ data_ = transaction.entry)

\* func changed a data set that was not empty with two or more mutations,
\* threw, and Apply has returned.
C22_Witness ==
  /\ transaction.pc = "returned"
  /\ transaction.threw
  /\ last_call.op = "Restore"
  /\ transaction.mutations >= 2
  /\ transaction.changed
  /\ transaction.entry # <<>>
  /\ data_ = transaction.entry

----------------------------------------------------------------------------
\* C23: in the snake list of every result built by CalculateDiff,
\* consecutive snakes s and t satisfy s.x + s.size <= t.x and
\* s.y + s.size <= t.y.
C23_SnakesDisjoint ==
  Built =>
    \A i \in 0 .. VecLen(snakes_) - 2 :
      /\ snakes_[i].x + snakes_[i].size <= snakes_[i + 1].x
      /\ snakes_[i].y + snakes_[i].size <= snakes_[i + 1].y

----------------------------------------------------------------------------
\* A status that marks a move half whose counterpart is at position other.
MovedTo(status, other) ==
  /\ FlagOf(status) \in {FLAG_MOVED_CHANGED, FLAG_MOVED_NOT_CHANGED}
  /\ PosOf(status) = other

\* A status that marks the ignored half of a move whose counterpart is at
\* position other.
IgnoredFor(status, other) ==
  /\ FlagOf(status) = FLAG_IGNORE
  /\ PosOf(status) = other

\* C24: after construction with detect_moves=true, old index i carries
\* MOVED_CHANGED or MOVED_NOT_CHANGED with counterpart j if and only if new
\* index j carries IGNORE with counterpart i, and new index j carries
\* MOVED_CHANGED or MOVED_NOT_CHANGED with counterpart i if and only if old
\* index i carries IGNORE with counterpart j.
C24_MoveHalvesPaired ==
  (Built /\ detect_moves) =>
    \A i \in OldIndices : \A j \in NewIndices :
      /\ MovedTo(old_item_statuses_[i], j)
           <=> IgnoredFor(new_item_statuses_[j], i)
      /\ MovedTo(new_item_statuses_[j], i)
           <=> IgnoredFor(old_item_statuses_[i], j)

----------------------------------------------------------------------------
\* C25: with detect_moves=true, whenever DispatchAdditions or
\* DispatchRemovals reaches an index flagged MOVED_CHANGED or
\* MOVED_NOT_CHANGED, RemovePostponedUpdate finds the entry postponed for its
\* counterpart: it never returns the null that would be dereferenced.
C25_PartnerFound == fault # "null_deref"

\* A dispatch with move detection that reached a move half and emitted the
\* move.
C25_Witness ==
  /\ Dispatched
  /\ detect_moves
  /\ \E k \in 1 .. Len(updates) : updates[k].type = "MOVE"

----------------------------------------------------------------------------
\* The range callbacks among those delivered.
IsRangeUpdate(u) == u.type \in {"REMOVE", "INSERT"}

\* For the snakes from index i down, with pos_old and pos_new the start of
\* the snake visited before: one removal covering the whole gap of old items
\* above the snake, then one insertion covering the whole gap of new items.
RECURSIVE WholeGaps(_, _, _)
WholeGaps(i, pos_old, pos_new) ==
  IF i < 0 THEN <<>>
  ELSE LET end_x == snakes_[i].x + snakes_[i].size
           end_y == snakes_[i].y + snakes_[i].size
       IN (IF pos_old > end_x
           THEN <<OnRemoved(end_x, pos_old - end_x)>> ELSE <<>>)
          \o (IF pos_new > end_y
              THEN <<OnInserted(end_x, pos_new - end_y)>> ELSE <<>>)
          \o WholeGaps(i - 1, snakes_[i].x, snakes_[i].y)

\* C26: with detect_moves=false, DispatchUpdatesTo emits, for each snake
\* visited from last to first, at most one OnRemoved(end_x, pos_old - end_x)
\* for the whole gap of removed old items, then at most one
\* OnInserted(end_x, pos_new - end_y) for the whole gap of added new items,
\* each with count >= 1 and never split into single-item callbacks.
C26_CoalescedWithoutMoves ==
  (Dispatched /\ ~detect_moves) =>
    /\ SelectSeq(updates, IsRangeUpdate)
         = WholeGaps(VecLen(snakes_) - 1, old_list_size_, new_list_size_)
    /\ \A k \in 1 .. Len(updates) :
         IsRangeUpdate(updates[k]) => updates[k].count >= 1

\* A dispatch without move detection that removed a gap of two or more old
\* items and inserted a gap of two or more new items.
C26_Witness ==
  /\ Dispatched
  /\ ~detect_moves
  /\ \E k \in 1 .. Len(updates) :
       updates[k].type = "REMOVE" /\ updates[k].count >= 2
  /\ \E k \in 1 .. Len(updates) :
       updates[k].type = "INSERT" /\ updates[k].count >= 2

\* C27: the oracle is only asked about existing items.  Every pair that
\* CalculateDiff (the slides of DiffPartial and the scans of
\* FindMatchingItem) passed to AreItemsTheSame, every pair passed to
\* AreContentsTheSame and every pair DispatchUpdatesTo passed to
\* GetChangePayload has its old index in [0, oldSize) and its new index in
\* [0, newSize).
OracleCalls == locals.items \cup contents_calls \cup payload_calls

C27_OracleInRange ==
  \A call \in OracleCalls : call[1] \in OldIndices /\ call[2] \in NewIndices

\* A dispatched result with a move, found by a scan of FindMatchingItem,
\* for which all three questions were asked, AreItemsTheSame about the
\* first and about the last item of each list.
C27_Witness ==
  /\ Dispatched
  /\ Len(old) >= 2 /\ Len(new) >= 2
  /\ <<Len(old) - 1, Len(new) - 1>> \in locals.items
  /\ <<0, 0>> \in locals.items
  /\ \E k \in 1 .. Len(updates) : updates[k].type = "MOVE"
  /\ contents_calls # {}
  /\ payload_calls # {}

\* C28: every emitted callback is applicable when replayed.  Applying the
\* callbacks of a DispatchUpdatesTo in order to a list that starts with
\* oldSize items, each OnInserted(p, c) has 0 <= p <= length and c >= 1,
\* each OnRemoved(p, c) has p >= 0, c >= 1 and p + c <= length, each
\* OnMoved(f, t) has f and t in [0, length), and each OnChanged(p, c) has
\* p >= 0 and p + c <= length; so also for the callbacks emitted before a
\* dispatch ended in a fault.
C28_Applicable ==
  (pc \in {"dispatched", "fault"}) => Replay(StartCopy, updates, 1).ok

\* A dispatch that emitted all four callbacks.
C28_Witness ==
  /\ Dispatched
  /\ \A type \in {"INSERT", "REMOVE", "MOVE", "CHANGE"} :
       \E k \in 1 .. Len(updates) : updates[k].type = type

\* C29: CalculateDiff terminates.  Each of the two sub-ranges pushed after
\* a snake is found has strictly fewer cells (oldLen + newLen) than the
\* range it was split from, and the loop, once entered, is left: the range
\* stack becomes empty (or DiffPartial throws) after finitely many
\* iterations.
Cells(range) ==
  (range.old_list_end - range.old_list_start)
    + (range.new_list_end - range.new_list_start)

PushedSmaller ==
  LET n == VecLen(locals.stack)
      range == locals.stack[n - 1]
  IN IF VecLen(locals'.stack) = n + 1
     THEN /\ Cells(locals'.stack[n - 1]) < Cells(range)
          /\ Cells(locals'.stack[n]) < Cells(range)
     ELSE VecLen(locals'.stack) = n - 1

C29_Terminates ==
  /\ [][(pc = "loop" /\ pc' = "loop") => PushedSmaller]_vars
  /\ (pc = "loop") ~> (pc \in {"built", "fault"})

\* A CalculateDiff that has left its loop, the stack empty, after it found
\* two snakes and so split at least twice.
C29_Witness ==
  /\ pc = "built"
  /\ VecLen(locals.stack) = 0
  /\ VecLen(locals.snakes) >= 2

\* C30: the forward and backward working arrays are never accessed out of
\* bounds.  Both arrays have length 2 * max, max = oldSize + newSize +
\* |oldSize - newSize|, and every index DiffPartial filled, read or wrote,
\* in any sub-range, lies in [0, 2 * max).
ArrayLength ==
  2 * (GetOldListSize + GetNewListSize + Abs(GetOldListSize - GetNewListSize))

C30_ArraysInBounds ==
  locals # NoLocals =>
    /\ VecLen(locals.forward) = ArrayLength
    /\ VecLen(locals.backward) = ArrayLength
    /\ \A i \in locals.cells : 0 <= i /\ i < ArrayLength

\* A CalculateDiff that has returned after it touched the first and the
\* last cell of the arrays.
C30_Witness ==
  /\ pc = "built"
  /\ 0 \in locals.cells
  /\ ArrayLength - 1 \in locals.cells

========================================================================
